---- MODULE Spec2Model ----
(***************************************************************************)
(* A model of rudiweb: the transformer chains of a content space           *)
(* (RudiSpace.get_transformers), the request pipeline of RudiHandler, the  *)
(* request threads running a chain with the bootstrap decoration, the     *)
(* htmlwriter document tree with its parser, attributes and tree search,   *)
(* the construction of RudiServer, and the checks do_ALL makes before it   *)
(* answers a request.                                                      *)
(*                                                                         *)
(* Each part of the program has its own specification over its own         *)
(* variables; the variables of the other parts stay at their idle value.   *)
(***************************************************************************)
EXTENDS Integers, Sequences, FiniteSets, TLC

VARIABLES
    \* RudiSpace (main.py): the configured chains and the last lookup
    ext2transformers, gtCall,
    \* RudiHandler (main.py): one request being handled
    hpc,        \* "idle", "transform", "render", "done"
    hreq,       \* the request: command, response method, space type, extension, content
    chain,      \* the list get_transformers returned for the request
    idx,        \* position of the next transformer of the chain
    hwRoot,     \* hw.root, the document tree of the request
    invoked,    \* the transformer invocations made, in order
    responses,  \* the responses sent on the connection
    surfaced,   \* the exception the pipeline raised to its caller
    hkwargs,    \* the kwargs the space configures for its addhtmlhead transformers
    \* The request threads running the chain of a space
    fragments,  \* the module-level nodes of bootstrap/decorate.py
    hashseed,   \* the order the process gives the values of a set of strings
    tcfg,       \* the chain of the spaces and, per space, its kwargs
    tin,        \* per thread: the document requested
    tpc,        \* per thread: "idle", "transform", "render", "done"
    tidx,       \* per thread: position of the next transformer
    troot,      \* per thread: the tree `root` names
    theap,      \* the trees alive: tree id -> head, body and nodes
    tout,       \* per thread: the text rendered so far, and whether it was sent
    tprev,      \* per thread: the document and text of its previous answer
    \* lib/htmlwriter.py: HTMLParser
    pdoc,       \* the text fed to the parser
    porig,      \* the tree the text was rendered from, if it was
    ppos,       \* position of the next event of the text
    ptree,      \* the nodes under hw.root, in the order of their creation
    pstack,     \* self.stack: node indices, 0 for the Root
    plast,      \* self.last
    pwarnings,  \* the end tags ignored with a warning
    praised,    \* the exception feed() raised, or None
    \* lib/htmlwriter.py: one Attr object
    avalues,    \* self.values
    aadded,     \* the values it holds, in the order of their first addition
    aout,       \* the last render() of it: what it held and what it returned
    \* lib/htmlwriter.py: one Element, built and then rendered by a writer
    wtag,       \* self.tag
    wattrs,     \* self.attrs: attribute name -> values
    wchildren,  \* self.children
    wdefaults,  \* writer.defaults.tag2attrs: tag -> attribute name -> values
    wout,       \* the last render of the element
    \* RudiServer (main.py): construction from the configuration, get_space
    sconfig,    \* config: "space-order" and the entries of "spaces", in order
    sphase,     \* "setup" (in setup_spaces), "up" (serving), "failed"
    sspaces,    \* self.spaces: space name -> the RudiSpace constructed
    scall,      \* the last request: its docpath and what do_ALL did with it
    decoratable,  \* DECORATABLE_EXTENSIONS, the module-level list of main.py
    \* lib/htmlwriter.py: ParentNode.find / find1 / walk on one tree
    ftree,      \* the nodes of the tree, in the order of their creation
    fgen,       \* the generator the last find() returned
    fone,       \* the last find1() call and what it returned
    \* RudiHandler.do_ALL (main.py): the checks made before a response
    qin,        \* the request, the configuration and the file it names
    qpc,        \* the statement of do_ALL the handler is at
    qauth,      \* what is_authorized returned, or None
    qsent       \* the responses sent for the request, in order

chainVars == <<ext2transformers, gtCall>>

handlerVars == <<hpc, hreq, chain, idx, hwRoot, invoked, responses, surfaced, hkwargs>>

decorateVars == <<fragments, hashseed, tcfg, tin, tpc, tidx, troot, theap, tout, tprev>>

parserVars == <<pdoc, porig, ppos, ptree, pstack, plast, pwarnings, praised>>

attrVars == <<avalues, aadded, aout>>

\* The variables of the parts of lib/htmlwriter.py other than the parser.
writerVars == <<wtag, wattrs, wchildren, wdefaults, wout>>

serverVars == <<sconfig, sphase, sspaces, scall, decoratable>>

findVars == <<ftree, fgen, fone>>

gateVars == <<qin, qpc, qauth, qsent>>

restVars == <<attrVars, writerVars, serverVars, findVars, gateVars>>

\* The variables of the parts of main.py, of decorate.py and of the parser.
coreVars == <<chainVars, handlerVars, decorateVars, parserVars>>

\* The variables each part leaves alone.
offChain == <<handlerVars, decorateVars, parserVars, restVars>>

offHandler == <<decorateVars, parserVars, restVars>>

offDecorate == <<chainVars, handlerVars, parserVars, restVars>>

offParser == <<chainVars, handlerVars, decorateVars, restVars>>

offAttr == <<coreVars, writerVars, serverVars, findVars, gateVars>>

offWriter == <<coreVars, attrVars, serverVars, findVars, gateVars>>

offServer == <<coreVars, attrVars, writerVars, findVars, gateVars>>

offFind == <<coreVars, attrVars, writerVars, serverVars, gateVars>>

offGate == <<coreVars, attrVars, writerVars, serverVars, findVars>>

vars == <<chainVars, handlerVars, decorateVars, parserVars, restVars>>

(***************************************************************************)
(* Generic helpers                                                         *)
(***************************************************************************)
None == "None"

Range(s) == {s[i] : i \in 1..Len(s)}

\* All sequences over S of length at most n.
SeqsUpTo(S, n) == UNION {[1..k -> S] : k \in 0..n}

\* The sequences that hold every element of S once.
Perms(S) ==
    {p \in [1..Cardinality(S) -> S] : \A i, j \in 1..Cardinality(S) : i # j => p[i] # p[j]}

(***************************************************************************)
(* Idle values: what a specification gives the variables of the parts it   *)
(* does not run.                                                           *)
(***************************************************************************)
NoCall == [ext |-> None, extonly |-> FALSE, result |-> <<>>, before |-> <<>>]

NoDoc == [origin |-> -1, head |-> FALSE, body |-> FALSE, marks |-> <<>>]

NoExc == [text |-> <<>>]

NoReq == [command |-> None, method |-> None, stype |-> None, ext |-> None,
          content |-> None]

\* kwargs without "_content": kwargs.get("_content", None) is None.
NoContent == [_content |-> None]

ChainIdle ==
    /\ ext2transformers = <<>>
    /\ gtCall = NoCall

\* No request is being handled.
RequestIdle ==
    /\ hpc = "idle"
    /\ hreq = NoReq
    /\ chain = <<>>
    /\ idx = 1
    /\ hwRoot = NoDoc
    /\ invoked = <<>>
    /\ responses = <<>>
    /\ surfaced = NoExc

HandlerIdle ==
    /\ RequestIdle
    /\ hkwargs = NoContent

DecorateIdle ==
    /\ fragments = <<>>
    /\ hashseed = <<>>
    /\ tcfg = <<>>
    /\ tin = <<>>
    /\ tpc = <<>>
    /\ tidx = <<>>
    /\ troot = <<>>
    /\ theap = <<>>
    /\ tout = <<>>
    /\ tprev = <<>>

ParserIdle ==
    /\ pdoc = <<>>
    /\ porig = [some |-> FALSE, nodes |-> <<>>]
    /\ ppos = 1
    /\ ptree = <<>>
    /\ pstack = <<>>
    /\ plast = 0
    /\ pwarnings = <<>>
    /\ praised = None

NoRender == [done |-> FALSE, values |-> {}, extra |-> {}, quoted |-> FALSE, vals |-> <<>>]

AttrIdle ==
    /\ avalues = {}
    /\ aadded = <<>>
    /\ aout = NoRender

CoreIdle ==
    /\ ChainIdle
    /\ HandlerIdle
    /\ DecorateIdle
    /\ ParserIdle

NoOutput ==
    [done |-> FALSE, raised |-> FALSE, attrsl |-> <<>>, childrenl |-> <<>>,
     closed |-> FALSE, nl |-> FALSE, before |-> <<>>, rendered |-> <<>>]

WriterIdle ==
    /\ wtag = None
    /\ wattrs = <<>>
    /\ wchildren = <<>>
    /\ wdefaults = <<>>
    /\ wout = NoOutput

NoRequest == [done |-> FALSE, docpath |-> <<>>, raised |-> FALSE, space |-> None,
              status |-> None]

\* DECORATABLE_EXTENSIONS = [".html"], the value the import of main.py gives it.
DECORATABLE_EXTENSIONS == <<".html">>

\* No server is constructed.
NoServer ==
    /\ sconfig = <<>>
    /\ sphase = "idle"
    /\ sspaces = <<>>
    /\ scall = NoRequest

ServerIdle ==
    /\ NoServer
    /\ decoratable = DECORATABLE_EXTENSIONS

\* The object of a call that was not made.
NoQuery == [kind |-> "none", tag |-> "", s |-> <<>>, parent |-> 0, cls |-> "noclass"]

NoGenerator == [made |-> FALSE, start |-> 0, o |-> NoQuery, pos |-> 0, out |-> <<>>,
                exhausted |-> FALSE]

NoFind1 == [done |-> FALSE, start |-> 0, o |-> NoQuery, result |-> 0]

FindIdle ==
    /\ ftree = <<>>
    /\ fgen = NoGenerator
    /\ fone = NoFind1

GateIdle ==
    /\ qin = <<>>
    /\ qpc = "idle"
    /\ qauth = None
    /\ qsent = <<>>

RestIdle ==
    /\ AttrIdle
    /\ WriterIdle
    /\ ServerIdle
    /\ FindIdle
    /\ GateIdle

(***************************************************************************)
(* RudiSpace.get_transformers (main.py 788-802)                            *)
(***************************************************************************)
\* Bounds of the configurations explored.
MaxExtChain == 2
MaxPrePostChain == 1

\* Transformer objects a configuration may list (RudiTransformer instances).
TransformerNames == {"A", "B", "C", "D"}

\* Keys of the "transformers" mapping of a space configuration.
ChainKeys == {"pre", "post", ".html"}

\* Extensions a caller may ask for; ".txt" has no chain in any configuration.
LookupExts == {".html", ".txt", "pre", "post"}

\* The chains a configuration may give a key over the transformers in names.
ChainsFor(key, names, maxExt) ==
    IF key \in {"pre", "post"}
    THEN SeqsUpTo(names, MaxPrePostChain)
    ELSE SeqsUpTo(names, maxExt)

\* setup_transformers: one list per configured key, in configuration order.
SpaceConfigsOver(keys, names, maxExt) ==
    UNION {{f \in [D -> SeqsUpTo(names, maxExt)] :
                \A k \in D : f[k] \in ChainsFor(k, names, maxExt)} :
           D \in SUBSET keys}

SpaceConfigs == SpaceConfigsOver(ChainKeys, TransformerNames, MaxExtChain)

\* dict.get(key): the stored list, or None (some = FALSE).
DictGet(d, key) ==
    IF key \in DOMAIN d THEN [some |-> TRUE, val |-> d[key]]
    ELSE [some |-> FALSE, val |-> <<>>]

\* Python truthiness of a list-or-None: None and the empty list are falsy.
Truthy(o) == o.some /\ o.val # <<>>

\* A lookup without the slice: the local name is the stored list itself.
SliceCopy_NoCopy(e2t, ext) ==
    [val |-> IF ext \in DOMAIN e2t THEN e2t[ext] ELSE <<>>, alias |-> ext \in DOMAIN e2t]

\* `self.ext2transformers.get(ext, [])[:]`: the slice is a new list object,
\* so the local name is not an alias of the stored list.
SliceCopy(e2t, ext) ==
    [val |-> IF ext \in DOMAIN e2t THEN e2t[ext] ELSE <<>>, alias |-> FALSE]

\* `pre + transformers`: list concatenation builds a new list object.
PrependPre(t, pre) == [val |-> pre \o t.val, alias |-> FALSE]

\* `transformers.extend(post)`: in-place on whatever object the name holds.
ExtendPost(t, post) == [val |-> t.val \o post, alias |-> t.alias]

get_transformers_PostFirst(e2t, ext, extonly) ==
    [result |-> IF extonly THEN SliceCopy(e2t, ext).val
                ELSE DictGet(e2t, "post").val \o SliceCopy(e2t, ext).val
                     \o DictGet(e2t, "pre").val,
     e2t |-> e2t]

\* The whole method: the returned list and the chains left in the space.
get_transformers(e2t, ext, extonly) ==
    LET t0   == SliceCopy(e2t, ext)
        pre  == DictGet(e2t, "pre")
        post == DictGet(e2t, "post")
        t1   == IF ~extonly /\ Truthy(pre) THEN PrependPre(t0, pre.val) ELSE t0
        ext2 == ~extonly /\ Truthy(post)
        t2   == IF ext2 THEN ExtendPost(t1, post.val) ELSE t1
    IN  [result |-> t2.val,
         e2t    |-> IF ext2 /\ t1.alias
                    THEN [e2t EXCEPT ![ext] = t2.val]
                    ELSE e2t]

ChainInit ==
    /\ ext2transformers \in SpaceConfigs
    /\ gtCall = NoCall
    /\ HandlerIdle
    /\ DecorateIdle
    /\ ParserIdle
    /\ RestIdle

\* A caller looks a chain up; gtCall keeps the arguments, the list returned
\* and the chains as they were before the call.
GetTransformers(ext, extonly) ==
    LET r == get_transformers(ext2transformers, ext, extonly)
    IN  /\ gtCall' = [ext |-> ext, extonly |-> extonly, result |-> r.result,
                      before |-> ext2transformers]
        /\ ext2transformers' = r.e2t
        /\ UNCHANGED offChain

ChainNext ==
    \E ext \in LookupExts, extonly \in BOOLEAN : GetTransformers(ext, extonly)

SpecChain == (ChainInit) /\ [][ChainNext]_vars

(***************************************************************************)
(* Transformers as the request pipeline sees them (lib/rudiweb/            *)
(* transformers/content).  A document tree is kept by what the pipeline    *)
(* and the transformers ask of it: which tree object it is (origin 0 is    *)
(* the initial document of the request, origin k the tree parsed by the    *)
(* k-th transformer of the chain), whether find1 finds a head and a body   *)
(* in it, and the additions made to it, in order.                          *)
(***************************************************************************)
MaxHandlerChain == 2

TransformerFns == {"html2html", "txt2html", "addhtmlhead"}

\* Extensions of requested documents; ".md" has no content type.
RequestExts == {".html", ".txt", ".md"}

\* What RudiFile.load returned: markup without an html element, a full
\* document, an html element without head and body, bytes that are not
\* UTF-8, markup with a class attribute without value (<p class>x</p>), a
\* script whose text holds "<script" (<script>var a = '<script>';</script>).
Contents == {"fragment", "fulldoc", "htmlonly", "badbytes", "badclass", "badscript"}

ContentHasHtml(c) == c \in {"fulldoc", "htmlonly"}

\* hp.feed(content): handle_starttag raises on a class attribute without
\* value (None.split).
FeedRaises(c) == c = "badclass"

\* The children html2html adds to the body: the nodes parsed, among them
\* a script element with its text when the content holds one.
ParsedChildren(c) == IF c = "badscript" THEN "script" ELSE "html2html"

\* The _content values a configuration gives addhtmlhead.
HeadKwargs == {NoContent, [_content |-> "meta"]}

\* Raw(_content)
Raw(kwargs) == IF kwargs._content = None THEN "Raw(None)" ELSE "addhtmlhead"

\* hw.render() raises for a tree that holds a Raw without text (join of
\* None) or a script text that holds "<script" (Text.render).
render_raises(root) ==
    \E i \in DOMAIN root.marks : root.marks[i] \in {"Raw(None)", "script"}

\* hw.root.add(ef.html(ef.head(), ef.body()))
InitialDoc == [origin |-> 0, head |-> TRUE, body |-> TRUE, marks |-> <<>>]

\* The tree HTMLParser builds from content that holds an html element.
ParsedDoc(c, k) ==
    [origin |-> k, head |-> c = "fulldoc", body |-> c = "fulldoc", marks |-> <<>>]

\* A child added to the head or body of the tree.
Mark(root, what) == [root EXCEPT !.marks = Append(@, what)]

Returned(root) == [kind |-> "return", root |-> root, cause |-> None]
Nothing(root) == [kind |-> "nothing", root |-> root, cause |-> None]
\* `except Exception as e: raise Exception(f"error: {e}")`
Raised(root, cause) == [kind |-> "raise", root |-> root, cause |-> cause]

\* content.decode("utf-8")
DecodeFails(c) == c = "badbytes"

\* html2html.main
html2html(ext, content, root, k, kwargs) ==
    IF DecodeFails(content) THEN Raised(root, "UnicodeDecodeError")
    ELSE IF FeedRaises(content) THEN Raised(root, "AttributeError")
    ELSE IF ContentHasHtml(content) THEN Returned(ParsedDoc(content, k))
    ELSE IF ~root.body THEN Raised(root, "AttributeError")
    ELSE Returned(Mark(root, ParsedChildren(content)))

\* txt2html.main
txt2html(ext, content, root, k, kwargs) ==
    IF DecodeFails(content) THEN Raised(root, "UnicodeDecodeError")
    ELSE IF ~root.body THEN Raised(root, "AttributeError")
    ELSE Returned(Mark(root, "txt2html"))

\* addhtmlhead.main: returns nothing for a document that is not HTML.
addhtmlhead(ext, content, root, k, kwargs) ==
    IF ext \in {".html", ".htm"}
    THEN IF ~root.head THEN Raised(root, "AttributeError")
         ELSE Returned(Mark(root, Raw(kwargs)))
    ELSE Nothing(root)

\* RudiTransformer.run: self.fn(rudic, content, root, *args, **kwargs)
RudiTransformer_run(fn, ext, content, root, k, kwargs) ==
    CASE fn = "html2html" -> html2html(ext, content, root, k, kwargs)
      [] fn = "txt2html" -> txt2html(ext, content, root, k, kwargs)
      [] OTHER -> addhtmlhead(ext, content, root, k, kwargs)

\* The exception object a failing transformer raises: its message is
\* "error: " followed by the text of the underlying exception.
ExcOf(out) == [text |-> <<"error: ", out.cause>>]

(***************************************************************************)
(* RudiHandler (main.py 403-622)                                           *)
(***************************************************************************)
\* Keys of the "transformers" mapping of the space the requests resolve to.
HandlerKeys == {"pre", ".txt"}

\* The mappings of that space: at most one transformer under "pre".
HandlerSpaceConfigs ==
    {f \in SpaceConfigsOver(HandlerKeys, TransformerFns, MaxHandlerChain) :
        "pre" \in DOMAIN f => Len(f["pre"]) <= 1}

\* Times are whole seconds, up to MaxTime.
MaxTime == 2

\* The If-Modified-Since header: absent, a text that is no date, or a date.
NoSince == [present |-> FALSE, valid |-> FALSE, date |-> 0]
SinceHeaders ==
    {NoSince, [present |-> TRUE, valid |-> FALSE, date |-> 0]}
    \cup {[present |-> TRUE, valid |-> TRUE, date |-> t] : t \in 0..MaxTime}

\* RudiFile.is_newer: calendar.timegm(parsedate(httpdate)) > self.st.st_mtime
is_newer(date, mtime) == date > mtime

\* The orders in which a configuration can list the keys of its
\* "transformers" mapping: a dict keeps its keys in the order of insertion.
KeyOrders(e2t) == Perms(DOMAIN e2t)

\* RudiSpace.get_transformer_extensions: list(self.ext2transformers.keys()).
\* The dict of a space is its function ext2transformers with the sequence
\* keys, the order in which setup_transformers inserted them.
get_transformer_extensions(space) == space.keys

\* What the setup of the spaces configured before, or after, the space of
\* the requests added to DECORATABLE_EXTENSIONS.
OtherSpaceExtensions == {<<>>, <<".txt">>}

\* ASIS_EXTENSIONS, among the extensions of RequestExts.
AsisExtensions == {".txt"}

\* do_GET and do_HEAD call do_ALL; do_POST returns at once.
Commands == {"GET", "HEAD"}

NoPayload == [kind |-> "none", content |-> None, doc |-> NoDoc]

\* payload = content
ContentPayload(c) == [kind |-> "content", content |-> c, doc |-> NoDoc]

\* payload = hw.render(): the text of the tree hw.root holds.
RenderPayload(root) == [kind |-> "render", content |-> None, doc |-> root]

\* write_payload: the payload is written for GET only.
write_payload(command, payload) == command = "GET" /\ payload.kind # "none"

\* A response: the status line and headers (Content-Length is the length
\* of the payload), and whether the payload was written after them.
Response(status, payload, command) ==
    [status |-> status, payload |-> payload, written |-> write_payload(command, payload)]

ThreadRoot_IgnoreReturn(out, cur) == cur

\* `hw.root = transformer.run(rudic, content, hw.root) or hw.root`
ThreadRoot(out, cur) == IF out.kind = "return" THEN out.root ELSE cur

\* The loop under its try: an exception leaves the loop (the except clause
\* re-raises, the enclosing except clause logs it and the method returns);
\* otherwise the next transformer runs, or the tree is rendered after the last.
LoopPcAfter_Swallow(out, i, n) == IF i = n THEN "render" ELSE "transform"

LoopPcAfter(out, i, n) ==
    IF out.kind = "raise" THEN "done"
    ELSE IF i = n THEN "render" ELSE "transform"

\* do_ALL up to the response method it selects; do_default_response tests
\* the extension against the module-level DECORATABLE_EXTENSIONS.
do_ALL_route(spaceFound, rudiPath, authorized, dirNoSlash, exists, stype, ext, extensions) ==
    IF ~spaceFound THEN "404"
    ELSE IF rudiPath THEN "404"
    ELSE IF ~authorized THEN "401"
    ELSE IF dirNoSlash THEN "301"
    ELSE IF ~exists THEN "404"
    ELSE IF stype = "asis" THEN "asis"
    ELSE IF ext \in Range(extensions) THEN "decorated"
    ELSE IF ext \in AsisExtensions THEN "asis"
    ELSE "none"

\* do_404_response, do_401_response, do_301_response: status and headers.
SendStatus(status) ==
    /\ hpc' = "done"
    /\ responses' = Append(responses, Response(status, NoPayload, None))
    /\ UNCHANGED <<hreq, chain, idx, hwRoot, invoked, surfaced, hkwargs, chainVars,
                   offHandler>>

\* What do_asis_response does with If-Modified-Since: is_newer raises for a
\* header that is no date, 304 for a date that is not newer than the file.
modified_since(since, mtime) ==
    IF ~since.present THEN "load"
    ELSE IF ~since.valid THEN "raise"
    ELSE IF ~is_newer(since.date, mtime) THEN "304"
    ELSE "load"

\* do_asis_response and do_decorated_response up to the transformer loop.
EnterResponse(command, method, stype, ext, content, since, mtime) ==
    LET r == get_transformers(ext2transformers, ext, FALSE)
        ts == r.result
        checked == IF method = "asis" THEN modified_since(since, mtime) ELSE "load"
    IN  IF checked = "raise"
        THEN \* the except clause of do_asis_response logs the exception
             /\ hpc' = "done"
             /\ UNCHANGED <<hreq, chain, idx, hwRoot, invoked, responses, surfaced,
                            hkwargs, chainVars, offHandler>>
        ELSE IF checked = "304"
        THEN \* do_304_response
             /\ hpc' = "done"
             /\ responses' = Append(responses, Response("304", NoPayload, None))
             /\ UNCHANGED <<hreq, chain, idx, hwRoot, invoked, surfaced, hkwargs,
                            chainVars, offHandler>>
        ELSE /\ hreq' = [command |-> command, method |-> method, stype |-> stype,
                         ext |-> ext, content |-> content]
             /\ chain' = ts
             /\ ext2transformers' = r.e2t
             /\ idx' = 1
             /\ UNCHANGED <<invoked, surfaced, hkwargs, gtCall, offHandler>>
             /\ IF ts # <<>>
                THEN /\ hwRoot' = InitialDoc
                     /\ hpc' = "transform"
                     /\ UNCHANGED responses
                ELSE IF method = "asis"
                THEN /\ hwRoot' = NoDoc
                     /\ hpc' = "done"
                     /\ responses' = Append(responses,
                                            Response("200", ContentPayload(content),
                                                     command))
                ELSE /\ hwRoot' = InitialDoc
                     /\ hpc' = "render"
                     /\ UNCHANGED responses

\* A request arrives: do_GET or do_HEAD, then do_ALL.  The content and the
\* If-Modified-Since header are read by the response method only.
DoALL ==
    /\ hpc = "idle"
    /\ \E spaceFound, rudiPath, authorized, dirNoSlash, exists \in BOOLEAN,
          command \in Commands, stype \in {"asis", "default"}, ext \in RequestExts :
         LET route == do_ALL_route(spaceFound, rudiPath, authorized, dirNoSlash,
                                   exists, stype, ext, decoratable)
         IN  CASE route \in {"404", "401", "301"} -> SendStatus(route)
               [] route = "none" ->
                    /\ hpc' = "done"
                    /\ UNCHANGED <<hreq, chain, idx, hwRoot, invoked, responses,
                                   surfaced, hkwargs, chainVars, offHandler>>
               [] OTHER ->
                    \E content \in Contents, since \in SinceHeaders, mtime \in 0..MaxTime :
                       EnterResponse(command, route, stype, ext, content, since, mtime)

\* One pass of `for transformer in transformers:`.
RunTransformer ==
    /\ hpc = "transform"
    /\ LET fn == chain[idx]
           out == RudiTransformer_run(fn, hreq.ext, hreq.content, hwRoot, idx, hkwargs)
       IN  /\ invoked' = Append(invoked, [pos |-> idx, fn |-> fn, rootIn |-> hwRoot,
                                          kind |-> out.kind, rootOut |-> out.root])
           /\ hpc' = LoopPcAfter(out, idx, Len(chain))
           /\ idx' = idx + 1
           /\ IF out.kind = "raise"
              THEN /\ surfaced' = ExcOf(out)
                   /\ UNCHANGED hwRoot
              ELSE /\ hwRoot' = ThreadRoot(out, hwRoot)
                   /\ UNCHANGED surfaced
    /\ UNCHANGED <<hreq, chain, responses, hkwargs, chainVars, offHandler>>

\* payload = hw.render(); send_response(200); headers; write_payload(payload).
\* A render that raises leaves the method through its except clauses, which
\* log the exception: nothing is sent.
RenderAndSend ==
    /\ hpc = "render"
    /\ IF render_raises(hwRoot)
       THEN UNCHANGED responses
       ELSE responses' = Append(responses,
                                Response("200", RenderPayload(hwRoot), hreq.command))
    /\ hpc' = "done"
    /\ UNCHANGED <<hreq, chain, idx, hwRoot, invoked, surfaced, hkwargs, chainVars,
                   offHandler>>

\* The connection is closed; the next request gets a new handler.
CloseRequest ==
    /\ hpc = "done"
    /\ hpc' = "idle"
    /\ hreq' = NoReq
    /\ chain' = <<>>
    /\ idx' = 1
    /\ hwRoot' = NoDoc
    /\ invoked' = <<>>
    /\ responses' = <<>>
    /\ surfaced' = NoExc
    /\ UNCHANGED <<hkwargs, chainVars, offHandler>>

\* A server is up: the spaces are set up, and DECORATABLE_EXTENSIONS holds
\* the keys of the spaces in the order of their set-up: those of the spaces
\* configured before the space of the requests, those of that space in the
\* order its configuration lists them, those of the spaces configured
\* after it.
HandlerInit ==
    /\ ext2transformers \in HandlerSpaceConfigs
    /\ gtCall = NoCall
    /\ RequestIdle
    /\ hkwargs \in HeadKwargs
    /\ \E keys \in KeyOrders(ext2transformers) :
       \E before \in OtherSpaceExtensions, after \in OtherSpaceExtensions :
          decoratable = DECORATABLE_EXTENSIONS \o before
                          \o get_transformer_extensions(
                                 [keys |-> keys, ext2transformers |-> ext2transformers])
                          \o after
    /\ NoServer
    /\ DecorateIdle
    /\ ParserIdle
    /\ AttrIdle
    /\ WriterIdle
    /\ FindIdle
    /\ GateIdle

HandlerNext ==
    \/ DoALL
    \/ RunTransformer
    \/ RenderAndSend
    \/ CloseRequest

SpecHandler == HandlerInit /\ [][HandlerNext]_vars

(***************************************************************************)
(* Request threads (ThreadingHTTPServer gives every request its own        *)
(* thread) running do_decorated_response on a chain of the transformers    *)
(* html2html, addhtmlhead and bootstrap/decorate.py.  Thread r serves the  *)
(* requests for one document of space r; the spaces configure the same     *)
(* chain, each with its own kwargs.                                        *)
(*                                                                         *)
(* A tree is an object of the heap: its id says which request made it and  *)
(* at which step (0: the initial document).  A node says which request     *)
(* made it and at which step (request 0: made by the import of a module).  *)
(* The text rendered is the sequence of the renders of the nodes.          *)
(***************************************************************************)
Reqs == {1, 2}

Pick(r, a, b) == IF r = 1 THEN a ELSE b

\* Attr.update: the values join the set of the attribute.
Attr_update(values, new) == values \cup (Range(new) \ {None, ""})

\* ParentNode.add(child)
ParentNode_add(children, child) == Append(children, child)

\* The module-level nodes of decorate.py as its import leaves them:
\* BRAND_NAME_TEXT.s, COPYRIGHT_STRING_TEXT.s, the attributes of
\* BRAND_LOGO_IMG_ELEMENT and the children of NAVBAR_UL_ELEMENT.
ModuleFragments ==
    [BRAND_NAME_TEXT |-> "brand name",
     COPYRIGHT_STRING_TEXT |-> "(C) 2023 company name",
     BRAND_LOGO_IMG_ELEMENT |-> [class |-> {"img-fluid", "w-30"},
                                 src |-> {"/asis/img/brand-logo.png"}],
     NAVBAR_UL_ELEMENT |-> <<>>]

\* The methods of Root and Element the transformers call that
\* lib/htmlwriter.py does not define.
Undefined == {"get_headbody", "addl", "set_attr"}

\* The chains the spaces configure for ".html".
ThreadChains ==
    {<<"html2html">>, <<"html2html", "addhtmlhead">>, <<"addhtmlhead", "html2html">>,
     <<"html2html", "decorate">>, <<"decorate", "html2html">>}

\* The document of thread r: markup without an html element, a full
\* document, or markup whose element has the class attribute "a b".
ContentKinds == {"fragment", "fulldoc", "classes"}

ContentOf(r) == Pick(r, "content-1", "content-2")

\* The kwargs space r configures: for addhtmlhead "_content" or nothing,
\* for decorate "brand_name".
BrandOf(r) == Pick(r, "brand-1", "brand-2")

KwargsOf(r) ==
    {[_content |-> c, brand_name |-> BrandOf(r)] : c \in {None, Pick(r, "meta-1", "meta-2")}}

\* The orders in which a process meets the values of the set {"a", "b"}:
\* the hashes of strings change from one process to the next.
ClassOrders == {<<"a", "b">>, <<"b", "a">>}

TreeId(r, k) == [req |-> r, k |-> k]

NoTreeId == TreeId(0, 0)

\* ef.html(ef.head(), ef.body()) under a Root, or what HTMLParser builds
\* from a full document.
Tree(nodes) == [head |-> TRUE, body |-> TRUE, nodes |-> nodes]

\* The nodes HTMLParser makes from the content of request r at step k.
ContentNode(r, k, kind) ==
    [req |-> r, k |-> k, part |-> "body", value |-> ContentOf(r),
     classes |-> IF kind = "classes" THEN {"a", "b"} ELSE {}]

\* A Raw that is made once, by the import of the module.
RawNode_Module(r, k, kwargs) ==
    [req |-> 0, k |-> 0, part |-> "head", value |-> kwargs._content, classes |-> {}]

\* Raw(_content), made by the call of addhtmlhead.main
RawNode(r, k, kwargs) ==
    [req |-> r, k |-> k, part |-> "head", value |-> kwargs._content, classes |-> {}]

\* A writer kept by the module for every request.
Document_Shared(r) == TreeId(1, 0)

\* hw = HTMLWriter(); hw.root.add(ef.html(ef.head(), ef.body())): the
\* tree object of the request.
Document(r) == TreeId(r, 0)

Put(heap, id, tree) ==
    [i \in DOMAIN heap \cup {id} |-> IF i = id THEN tree ELSE heap[i]]

\* What a transformer leaves: what it returned or raised, and the heap.
Outcome(kind, root, heap) == [kind |-> kind, root |-> root, heap |-> heap]

\* html2html.main: a full document is returned as a new tree, other nodes
\* are added to the body of the tree given.
html2html_main(r, k, kind, root, heap, kwargs) ==
    IF kind = "fulldoc"
    THEN Outcome("return", TreeId(r, k),
                 Put(heap, TreeId(r, k), Tree(<<ContentNode(r, k, kind)>>)))
    ELSE Outcome("return", root,
                 [heap EXCEPT ![root].nodes =
                     ParentNode_add(@, ContentNode(r, k, kind))])

\* addhtmlhead.main for a document of extension .html
addhtmlhead_main(r, k, kind, root, heap, kwargs) ==
    Outcome("return", root,
            [heap EXCEPT ![root].nodes = ParentNode_add(@, RawNode(r, k, kwargs))])

\* decorate.main: its first statement, root.get_headbody(), raises
\* AttributeError, and main raises Exception("error: ...") in its place;
\* no statement that touches the module-level nodes is reached.
decorate_main(r, k, kind, root, heap, kwargs) ==
    IF "get_headbody" \in Undefined THEN Outcome("raise", root, heap)
    ELSE Outcome("return", root, heap)

Transformer_run(fn, r, k, kind, root, heap, kwargs) ==
    CASE fn = "html2html" -> html2html_main(r, k, kind, root, heap, kwargs)
      [] fn = "addhtmlhead" -> addhtmlhead_main(r, k, kind, root, heap, kwargs)
      [] OTHER -> decorate_main(r, k, kind, root, heap, kwargs)

\* The nodes of a tree in the order render meets them: head, then body.
RenderOrder(tree) ==
    SelectSeq(tree.nodes, LAMBDA n : n.part = "head")
        \o SelectSeq(tree.nodes, LAMBDA n : n.part = "body")

\* The render of a node: its text, and the values of its class attribute
\* in the order the set gives them.
Node_render(n, order) ==
    [value |-> n.value, classes |-> SelectSeq(order, LAMBDA v : v \in n.classes)]

NoOut == [pos |-> 0, text |-> <<>>, sent |-> FALSE]

NoPrev == [some |-> FALSE, kind |-> None, text |-> <<>>]

(* The request threads *)

\* do_decorated_response up to the loop: the document of the request is
\* made, the content loaded, the chain looked up.
StartRequest(r) ==
    /\ tpc[r] = "idle"
    /\ \E kind \in ContentKinds : tin' = [tin EXCEPT ![r] = kind]
    /\ troot' = [troot EXCEPT ![r] = Document(r)]
    /\ theap' = Put(theap, Document(r), Tree(<<>>))
    /\ tidx' = [tidx EXCEPT ![r] = 1]
    /\ tpc' = [tpc EXCEPT ![r] = "transform"]
    /\ UNCHANGED <<fragments, hashseed, tcfg, tout, tprev, chainVars, handlerVars,
                   offDecorate>>

\* One pass of `for transformer in transformers:`; an exception leaves
\* the method, and do_default_response logs it.
ThreadTransform(r) ==
    /\ tpc[r] = "transform"
    /\ LET k == tidx[r]
           out == Transformer_run(tcfg.chain[k], r, k, tin[r], troot[r], theap,
                                  tcfg.kwargs[r])
       IN  /\ theap' = out.heap
           /\ troot' = [troot EXCEPT ![r] = out.root]
           /\ tidx' = [tidx EXCEPT ![r] = k + 1]
           /\ tpc' = [tpc EXCEPT ![r] =
                        IF out.kind = "raise" THEN "done"
                        ELSE IF k = Len(tcfg.chain) THEN "render" ELSE "transform"]
           /\ tout' = [tout EXCEPT ![r] =
                         IF out.kind # "raise" /\ k = Len(tcfg.chain)
                         THEN [NoOut EXCEPT !.pos = 1] ELSE @]
    /\ UNCHANGED <<fragments, hashseed, tcfg, tin, tprev, chainVars, handlerVars,
                   offDecorate>>

\* hw.render() at its next node; the join of a Raw without text raises.
ThreadRender(r) ==
    /\ tpc[r] = "render"
    /\ LET nodes == RenderOrder(theap[troot[r]])
       IN  /\ tout[r].pos <= Len(nodes)
           /\ IF nodes[tout[r].pos].value = None
              THEN /\ tpc' = [tpc EXCEPT ![r] = "done"]
                   /\ tout' = [tout EXCEPT ![r] = NoOut]
              ELSE /\ tout' = [tout EXCEPT ![r] =
                                 [@ EXCEPT !.pos = @ + 1,
                                           !.text = Append(@, Node_render(nodes[tout[r].pos],
                                                                          hashseed))]]
                   /\ UNCHANGED tpc
    /\ UNCHANGED <<fragments, hashseed, tcfg, tin, tidx, troot, theap, tprev,
                   chainVars, handlerVars, offDecorate>>

\* send_response(200), the headers, write_payload(payload)
ThreadSend(r) ==
    /\ tpc[r] = "render"
    /\ tout[r].pos > Len(RenderOrder(theap[troot[r]]))
    /\ tout' = [tout EXCEPT ![r].sent = TRUE]
    /\ tpc' = [tpc EXCEPT ![r] = "done"]
    /\ UNCHANGED <<fragments, hashseed, tcfg, tin, tidx, troot, theap, tprev,
                   chainVars, handlerVars, offDecorate>>

\* The handler returns: the writer and the trees of the request are
\* dropped; the text sent is remembered as the previous answer.
ThreadFinish(r) ==
    /\ tpc[r] = "done"
    /\ tprev' = [tprev EXCEPT ![r] =
                   IF tout[r].sent
                   THEN [some |-> TRUE, kind |-> tin[r], text |-> tout[r].text]
                   ELSE @]
    /\ theap' = [i \in {j \in DOMAIN theap : j.req # r} |-> theap[i]]
    /\ troot' = [troot EXCEPT ![r] = NoTreeId]
    /\ tin' = [tin EXCEPT ![r] = None]
    /\ tidx' = [tidx EXCEPT ![r] = 1]
    /\ tout' = [tout EXCEPT ![r] = NoOut]
    /\ tpc' = [tpc EXCEPT ![r] = "idle"]
    /\ UNCHANGED <<fragments, hashseed, tcfg, chainVars, handlerVars, offDecorate>>

\* The server is stopped and started again: a new process, with its own
\* hashes of strings.
Restart ==
    /\ \A r \in Reqs : tpc[r] = "idle"
    /\ \E order \in ClassOrders : hashseed' = order
    /\ UNCHANGED <<fragments, tcfg, tin, tpc, tidx, troot, theap, tout, tprev,
                   chainVars, handlerVars, offDecorate>>

\* The server is up: the modules are imported, no request is being handled.
DecorateInit ==
    /\ fragments = ModuleFragments
    /\ hashseed \in ClassOrders
    /\ \E c \in ThreadChains, k1 \in KwargsOf(1), k2 \in KwargsOf(2) :
          tcfg = [chain |-> c, kwargs |-> <<k1, k2>>]
    /\ tin = [r \in Reqs |-> None]
    /\ tpc = [r \in Reqs |-> "idle"]
    /\ tidx = [r \in Reqs |-> 1]
    /\ troot = [r \in Reqs |-> NoTreeId]
    /\ theap = <<>>
    /\ tout = [r \in Reqs |-> NoOut]
    /\ tprev = [r \in Reqs |-> NoPrev]
    /\ ChainIdle
    /\ HandlerIdle
    /\ ParserIdle
    /\ RestIdle

DecorateNext ==
    \/ \E r \in Reqs : StartRequest(r)
    \/ \E r \in Reqs : ThreadTransform(r)
    \/ \E r \in Reqs : ThreadRender(r)
    \/ \E r \in Reqs : ThreadSend(r)
    \/ \E r \in Reqs : ThreadFinish(r)
    \/ Restart

SpecDecorate == DecorateInit /\ [][DecorateNext]_vars

(***************************************************************************)
(* lib/htmlwriter.py: rendering a document tree and parsing a text         *)
(*                                                                         *)
(* A string is the sequence of its characters.  A tree is the sequence of  *)
(* its nodes in the order of their creation, each with the index of its    *)
(* parent (0: the Root); the children of a node are in index order.  A     *)
(* text is the sequence of its pieces: a start tag, an end tag, a comment  *)
(* with the characters between its delimiters, or a run of characters.     *)
(* The one attribute a start tag may carry is class.                       *)
(***************************************************************************)
MaxPieces == 3
MaxNodes == 3

NL_ELEMENTS == {"body", "br", "div", "hr", "p", "td", "th", "thead", "tbody", "tr"}

VOID_ELEMENTS == {"area", "base", "br", "col", "embed", "hr", "img", "input",
                  "keygen", "link", "meta", "param", "source", "track", "wbr"}

is_void(tag) == tag \in VOID_ELEMENTS

\* html.escape(s, quote): & first, then < and >, then " when quote is set
\* (the strings here hold no apostrophe).
RECURSIVE escape(_, _)
escape(s, quote) ==
    IF s = <<>> THEN <<>>
    ELSE LET c == Head(s)
             e == CASE c = "&" -> <<"&", "a", "m", "p", ";">>
                    [] c = "<" -> <<"&", "l", "t", ";">>
                    [] c = ">" -> <<"&", "g", "t", ";">>
                    [] c = "\"" /\ quote -> <<"&", "q", "u", "o", "t", ";">>
                    [] OTHER -> <<c>>
         IN  e \o escape(Tail(s), quote)

\* The named character references of html.entities.html5 used here, with
\* and without the closing semicolon.
Html5 ==
    {[name |-> <<"a", "m", "p", ";">>, ch |-> "&"],
     [name |-> <<"a", "m", "p">>, ch |-> "&"],
     [name |-> <<"l", "t", ";">>, ch |-> "<"],
     [name |-> <<"l", "t">>, ch |-> "<"],
     [name |-> <<"g", "t", ";">>, ch |-> ">"],
     [name |-> <<"g", "t">>, ch |-> ">"],
     [name |-> <<"q", "u", "o", "t", ";">>, ch |-> "\""],
     [name |-> <<"q", "u", "o", "t">>, ch |-> "\""]}

Html5Names == {e.name : e \in Html5}

Html5Char(name) == (CHOOSE e \in Html5 : e.name = name).ch

\* The characters a reference name is made of: [^\t\n\f <&#;]
NameChar(c) == c \notin {"\t", "\n", "\f", " ", "<", "&", "#", ";"}

\* The length of the longest run of name characters that s starts with.
RECURSIVE NameLen(_)
NameLen(s) ==
    IF s = <<>> \/ ~NameChar(Head(s)) THEN 0 ELSE 1 + NameLen(Tail(s))

\* html._replace_charref for a named reference ref (without the &): the
\* name itself, else its longest proper prefix of two characters or more
\* that is a name, else the reference as it stands.
replace_charref(ref) ==
    IF ref \in Html5Names THEN <<Html5Char(ref)>>
    ELSE LET xs == {x \in 2..(Len(ref) - 1) : SubSeq(ref, 1, x) \in Html5Names}
         IN  IF xs = {} THEN <<"&">> \o ref
             ELSE LET x == CHOOSE y \in xs : \A z \in xs : z <= y
                  IN  <<Html5Char(SubSeq(ref, 1, x))>>
                      \o SubSeq(ref, x + 1, Len(ref))

\* html.unescape: every & followed by a name and an optional semicolon is
\* replaced (the strings here hold no numeric reference).
RECURSIVE unescape(_)
unescape(s) ==
    IF s = <<>> THEN <<>>
    ELSE IF Head(s) # "&" THEN <<Head(s)>> \o unescape(Tail(s))
    ELSE LET rest == Tail(s)
             n == IF NameLen(rest) > 32 THEN 32 ELSE NameLen(rest)
             m == IF n < Len(rest) /\ rest[n + 1] = ";" THEN n + 1 ELSE n
         IN  IF n = 0 THEN <<"&">> \o unescape(rest)
             ELSE replace_charref(SubSeq(rest, 1, m))
                  \o unescape(SubSeq(rest, m + 1, Len(rest)))

\* The upper-case letters with their lower-case letters.
LowerCase ==
    [A |-> "a", B |-> "b", C |-> "c", D |-> "d", E |-> "e", F |-> "f", G |-> "g",
     H |-> "h", I |-> "i", J |-> "j", K |-> "k", L |-> "l", M |-> "m", N |-> "n",
     O |-> "o", P |-> "p", Q |-> "q", R |-> "r", S |-> "s", T |-> "t", U |-> "u",
     V |-> "v", W |-> "w", X |-> "x", Y |-> "y", Z |-> "z"]

RECURSIVE str_lower(_)
\* str.lower: every upper-case letter of the string is replaced by its
\* lower-case letter, every other character is kept.
str_lower(s) ==
    IF s = "" THEN ""
    ELSE LET c == SubSeq(s, 1, 1)
         IN  (IF c \in DOMAIN LowerCase THEN LowerCase[c] ELSE c)
                \o str_lower(SubSeq(s, 2, Len(s)))

\* str.lower of a tag name, as the tokenizer applies it.
Lower(tag) == str_lower(tag)

(* Nodes and pieces *)
\* The class attribute of a start tag or of an element: none, or its value.
\* The tokenizer hands the value None for `class` written without a value,
\* and the value with its references replaced otherwise.
NoClass == "noclass"

ClassElementNode(tag, cls, parent) ==
    [kind |-> "element", tag |-> tag, s |-> <<>>, parent |-> parent, cls |-> cls]
ElementNode(tag, parent) == ClassElementNode(tag, NoClass, parent)
TextNode(s, parent) ==
    [kind |-> "text", tag |-> "", s |-> s, parent |-> parent, cls |-> NoClass]
CommentNode(s, parent) ==
    [kind |-> "comment", tag |-> "", s |-> s, parent |-> parent, cls |-> NoClass]

ClassStartP(tag, cls) == [k |-> "start", tag |-> tag, s |-> <<>>, cls |-> cls]
StartP(tag) == ClassStartP(tag, NoClass)
EndP(tag) == [k |-> "end", tag |-> tag, s |-> <<>>, cls |-> NoClass]
CommentP(s) == [k |-> "comment", tag |-> "", s |-> s, cls |-> NoClass]
TextP(s) == [k |-> "text", tag |-> "", s |-> s, cls |-> NoClass]

(* Rendering *)
\* Text.render with a parent that is not a script element.
Text_render(node) == <<TextP(escape(node.s, FALSE))>>

\* Comment.render: "<!-- " escape(s) " -->"
Comment_render(node) == <<CommentP(<<" ">> \o escape(node.s, TRUE) \o <<" ">>)>>

RECURSIVE RenderFrom(_, _, _)
\* The renders of the children of node p that have index j or more, joined.
\* Element.render: a void element renders its start tag alone, any other
\* its start tag, its children and its end tag; a newline follows the
\* elements of NL_ELEMENTS.
RenderFrom(nodes, p, j) ==
    IF j > Len(nodes) THEN <<>>
    ELSE IF nodes[j].parent # p THEN RenderFrom(nodes, p, j + 1)
    ELSE LET node == nodes[j]
             nl == IF node.tag \in NL_ELEMENTS THEN <<TextP(<<"\n">>)>> ELSE <<>>
             own == CASE node.kind = "text" -> Text_render(node)
                      [] node.kind = "comment" -> Comment_render(node)
                      [] node.kind = "element" /\ is_void(node.tag) ->
                           <<ClassStartP(node.tag, node.cls)>> \o nl
                      [] OTHER ->
                           <<ClassStartP(node.tag, node.cls)>> \o RenderFrom(nodes, j, j + 1)
                           \o <<EndP(node.tag)>> \o nl
         IN  own \o RenderFrom(nodes, p, j + 1)

\* Root.render
Root_render(nodes) == RenderFrom(nodes, 0, 1)

(* The tokenizer of html.parser (convert_charrefs set) *)
RECURSIVE MergeText(_)
\* Consecutive runs of characters of a text are one run.
MergeText(doc) ==
    IF Len(doc) < 2 THEN doc
    ELSE IF doc[1].k = "text" /\ doc[2].k = "text"
         THEN MergeText(<<TextP(doc[1].s \o doc[2].s)>> \o SubSeq(doc, 3, Len(doc)))
         ELSE <<doc[1]>> \o MergeText(Tail(doc))

\* goahead without close: a run at the end of the text is kept back while
\* the last & of its last 34 characters has no space or semicolon after it.
Held(s) ==
    LET amps == {i \in 1..Len(s) : s[i] = "&" /\ i > Len(s) - 34}
    IN  /\ amps # {}
        /\ LET a == CHOOSE i \in amps : \A j \in amps : j <= i
           IN  \A j \in a..Len(s) : s[j] \notin {" ", "\t", "\n", "\f", ";"}

\* What one piece is handed to the handlers as: tag names in lower case,
\* the references of a run of characters replaced, comments as they are.
EventOf(piece) ==
    CASE piece.k = "text" -> [k |-> "data", tag |-> "", s |-> unescape(piece.s), cls |-> NoClass]
      [] piece.k = "comment" -> piece
      [] OTHER -> [piece EXCEPT !.tag = Lower(piece.tag)]

\* HTMLParser.feed(doc): the events the handlers are called with, in order.
goahead(doc) ==
    LET m == MergeText(doc)
        fed == IF m # <<>> /\ m[Len(m)].k = "text" /\ Held(m[Len(m)].s)
               THEN SubSeq(m, 1, Len(m) - 1) ELSE m
        NonEmpty(piece) == piece.k # "text" \/ piece.s # <<>>
        kept == SelectSeq(fed, NonEmpty)
    IN  [i \in 1..Len(kept) |-> EventOf(kept[i])]

(* The inputs *)
TreeTags == {"div", "span", "DIV"}
TreeTexts == {<<"a">>, <<"<">>, <<"&", "l", "t", ";">>, <<>>}
TreeComments == {<<"x">>}

DocTags == {"div", "span", "br"}
DocTexts == {<<"t">>}
DocComments == {<<"x">>}

\* Node 0 and the open elements on the path from the last node up.
RECURSIVE Ancestors(_, _)
Ancestors(nodes, i) ==
    IF i = 0 THEN {0} ELSE {i} \cup Ancestors(nodes, nodes[i].parent)

OpenPath(nodes) ==
    {i \in Ancestors(nodes, Len(nodes)) : i = 0 \/ nodes[i].kind = "element"}

\* What Element(..).add(..) builds from non-void elements, texts and
\* comments: the trees of at most n nodes, nodes in document order.
RECURSIVE TreesOf(_)
TreesOf(n) ==
    IF n = 0 THEN {<<>>}
    ELSE LET prev == TreesOf(n - 1)
             full == {t \in prev : Len(t) = n - 1}
             Grow(t) ==
                UNION {{Append(t, ElementNode(tag, p)) : tag \in TreeTags}
                       \cup {Append(t, TextNode(s, p)) : s \in TreeTexts}
                       \cup {Append(t, CommentNode(s, p)) : s \in TreeComments}
                       : p \in OpenPath(t)}
         IN  prev \cup UNION {Grow(t) : t \in full}

Trees == TreesOf(MaxNodes)

\* The class values of the start tags of a text: `class`, class="a" and
\* class="&amp;".
DocClasses == {None, "a", "&"}

DocPieces ==
    {StartP(tag) : tag \in DocTags} \cup {EndP(tag) : tag \in DocTags}
    \cup {ClassStartP("div", cls) : cls \in DocClasses}
    \cup {TextP(s) : s \in DocTexts} \cup {CommentP(s) : s \in DocComments}

Documents == SeqsUpTo(DocPieces, MaxPieces)

NoOrig == [some |-> FALSE, nodes |-> <<>>]

\* A text to parse: one written by hand, or the render of a tree.
ParserInputs ==
    {[doc |-> doc, orig |-> NoOrig] : doc \in Documents}
    \cup {[doc |-> Root_render(t), orig |-> [some |-> TRUE, nodes |-> t]]
          : t \in Trees}

(* HTMLParser *)
\* The event the tokenizer is at.
Event == goahead(pdoc)[ppos]

HasEvent(kind) ==
    /\ praised = None
    /\ ppos \in 1..Len(goahead(pdoc))
    /\ goahead(pdoc)[ppos].k = kind

ParseDone == ppos > Len(goahead(pdoc))

is_valid == Len(pstack) = 1

\* handle_starttag, the loop over attrs: for class, `v = v.split()` raises
\* when the value is None, and unescape(v) of the list raises when "&" is
\* one of its items; any other value is kept.
class_raises(cls) ==
    CASE cls = None -> "AttributeError"
      [] cls = "&" -> "TypeError"
      [] OTHER -> None

\* A handle_starttag that pushes the element whatever its tag is.
HandleStartTag_PushVoid ==
    /\ HasEvent("start")
    /\ IF class_raises(Event.cls) # None
       THEN /\ praised' = class_raises(Event.cls)
            /\ UNCHANGED <<ptree, pstack, plast, ppos>>
       ELSE /\ ptree' = Append(ptree, ClassElementNode(Event.tag, Event.cls, plast))
            /\ pstack' = Append(pstack, Len(ptree) + 1)
            /\ plast' = Len(ptree) + 1
            /\ ppos' = ppos + 1
            /\ UNCHANGED praised
    /\ UNCHANGED <<pdoc, porig, pwarnings, offParser>>

\* handle_starttag
HandleStartTag ==
    /\ HasEvent("start")
    /\ IF class_raises(Event.cls) # None
       THEN /\ praised' = class_raises(Event.cls)
            /\ UNCHANGED <<ptree, pstack, plast, ppos>>
       ELSE /\ ptree' = Append(ptree, ClassElementNode(Event.tag, Event.cls, plast))
            /\ IF ~is_void(Event.tag)
               THEN /\ pstack' = Append(pstack, Len(ptree) + 1)
                    /\ plast' = Len(ptree) + 1
               ELSE UNCHANGED <<pstack, plast>>
            /\ ppos' = ppos + 1
            /\ UNCHANGED praised
    /\ UNCHANGED <<pdoc, porig, pwarnings, offParser>>

\* A handle_endtag that closes the current element whatever the name is.
HandleEndTag_PopAlways ==
    /\ HasEvent("end")
    /\ IF plast = 0
       THEN /\ pwarnings' = Append(pwarnings, [tag |-> Event.tag, last |-> plast])
            /\ UNCHANGED <<pstack, plast>>
       ELSE /\ pstack' = SubSeq(pstack, 1, Len(pstack) - 1)
            /\ plast' = IF Len(pstack) > 1 THEN pstack[Len(pstack) - 1] ELSE plast
            /\ UNCHANGED pwarnings
    /\ ppos' = ppos + 1
    /\ UNCHANGED <<pdoc, porig, ptree, praised, offParser>>

\* handle_endtag
HandleEndTag ==
    /\ HasEvent("end")
    /\ IF plast = 0 \/ Event.tag # ptree[plast].tag
       THEN /\ pwarnings' = Append(pwarnings, [tag |-> Event.tag, last |-> plast])
            /\ UNCHANGED <<pstack, plast>>
       ELSE /\ pstack' = SubSeq(pstack, 1, Len(pstack) - 1)
            /\ plast' = IF Len(pstack) > 1 THEN pstack[Len(pstack) - 1] ELSE plast
            /\ UNCHANGED pwarnings
    /\ ppos' = ppos + 1
    /\ UNCHANGED <<pdoc, porig, ptree, praised, offParser>>

\* handle_data
HandleData ==
    /\ HasEvent("data")
    /\ ptree' = Append(ptree, TextNode(unescape(Event.s), plast))
    /\ ppos' = ppos + 1
    /\ UNCHANGED <<pdoc, porig, pstack, plast, pwarnings, praised, offParser>>

\* handle_comment
HandleComment ==
    /\ HasEvent("comment")
    /\ ptree' = Append(ptree, CommentNode(unescape(Event.s), plast))
    /\ ppos' = ppos + 1
    /\ UNCHANGED <<pdoc, porig, pstack, plast, pwarnings, praised, offParser>>

\* HTMLParser.__init__, then feed(doc)
ParserInit ==
    /\ \E input \in ParserInputs :
          /\ pdoc = input.doc
          /\ porig = input.orig
    /\ ppos = 1
    /\ ptree = <<>>
    /\ pstack = <<0>>
    /\ plast = 0
    /\ pwarnings = <<>>
    /\ praised = None
    /\ ChainIdle
    /\ HandlerIdle
    /\ DecorateIdle
    /\ RestIdle

ParserNext ==
    \/ HandleStartTag
    \/ HandleEndTag
    \/ HandleData
    \/ HandleComment

SpecParser == ParserInit /\ [][ParserNext]_vars

(***************************************************************************)
(* lib/htmlwriter.py: Attr                                                 *)
(*                                                                         *)
(* The values of an Attr are a Python set: what it holds is a set, and the *)
(* order in which render() meets the values is any order.  A value is a    *)
(* string of one character, the empty string, or None.                     *)
(***************************************************************************)
AttrValues == {"a", "<", "", None}
ExtraValues == {"a", "b", ""}

\* The values Python takes as false.
Falsy(v) == v \in {None, ""}

\* Attr.add
Attr_add(values, v) == IF v # None THEN values \cup {v} ELSE values

\* Attr.clear
Attr_clear(values) == {}

\* Attr.set: clear, then update of the set with every value given.
Attr_set(values, new) == Range(new)

\* The extra Attr handed to render, or None.
NoExtra == [some |-> FALSE, values |-> {}]
ExtraChoices == {NoExtra} \cup {[some |-> TRUE, values |-> S] : S \in SUBSET ExtraValues}

\* Attr.render: list(filter(None, values)) as a set.
Attr_kept(values, extra) ==
    {v \in (IF extra.some THEN values \cup extra.values ELSE values) : ~Falsy(v)}

\* A render that writes the quoted form whatever the values are.
Attr_render_AlwaysQuoted(values, extra, order) ==
    [done |-> TRUE, values |-> values, extra |-> extra.values,
     quoted |-> TRUE,
     vals |-> [i \in 1..Len(order) |-> escape(<<order[i]>>, TRUE)]]

\* Attr.render(extra), the values met in the given order: name="v1 v2 .."
\* with each value escaped, or the name alone when no value is kept.
Attr_render(values, extra, order) ==
    [done |-> TRUE, values |-> values, extra |-> extra.values,
     quoted |-> Attr_kept(values, extra) # {},
     vals |-> [i \in 1..Len(order) |-> escape(<<order[i]>>, TRUE)]]

\* The values of `added` followed by those of `new` it does not hold yet.
RECURSIVE FirstSeen(_, _)
FirstSeen(added, new) ==
    IF new = <<>> THEN added
    ELSE FirstSeen(IF Head(new) \in Range(added) THEN added ELSE Append(added, Head(new)),
                   Tail(new))

AttrAdd ==
    /\ \E v \in AttrValues :
          /\ avalues' = Attr_add(avalues, v)
          /\ aadded' = FirstSeen(aadded, IF v # None THEN <<v>> ELSE <<>>)
    /\ UNCHANGED <<aout, offAttr>>

AttrClear ==
    /\ avalues' = Attr_clear(avalues)
    /\ aadded' = <<>>
    /\ UNCHANGED <<aout, offAttr>>

AttrSet ==
    /\ \E new \in SeqsUpTo(AttrValues, 2) :
          /\ avalues' = Attr_set(avalues, new)
          /\ aadded' = FirstSeen(<<>>, new)
    /\ UNCHANGED <<aout, offAttr>>

AttrUpdate ==
    /\ \E new \in SeqsUpTo(AttrValues, 2) :
          /\ avalues' = Attr_update(avalues, new)
          /\ aadded' = FirstSeen(aadded, SelectSeq(new, LAMBDA v : ~Falsy(v)))
    /\ UNCHANGED <<aout, offAttr>>

AttrRender ==
    /\ \E extra \in ExtraChoices :
          \E order \in Perms(Attr_kept(avalues, extra)) :
             aout' = Attr_render(avalues, extra, order)
    /\ UNCHANGED <<avalues, aadded, offAttr>>

\* Attr.__init__(name, values)
AttrInit ==
    /\ \E new \in SeqsUpTo(AttrValues, 2) :
          /\ avalues = Attr_update({}, new)
          /\ aadded = FirstSeen(<<>>, SelectSeq(new, LAMBDA v : ~Falsy(v)))
    /\ aout = NoRender
    /\ CoreIdle
    /\ WriterIdle
    /\ ServerIdle
    /\ FindIdle
    /\ GateIdle

AttrNext ==
    \/ AttrAdd
    \/ AttrClear
    \/ AttrSet
    \/ AttrUpdate
    \/ AttrRender

SpecAttr == AttrInit /\ [][AttrNext]_vars

(***************************************************************************)
(* lib/htmlwriter.py: Element, Defaults and Element.render                 *)
(*                                                                         *)
(* One Element is built (constructor, add, insert, add_attrs), the         *)
(* Defaults of the writer are set up, and the element is rendered.  Its    *)
(* children are texts and span elements without children.  What a          *)
(* render returns is kept as the arguments of its format string: the       *)
(* attributes rendered, the renders of the children, whether an end tag is *)
(* written, whether a newline follows.                                     *)
(***************************************************************************)
MaxChildren == 2

WriterTags == {"div", "span", "script", "br"}
AttrNames == {"class"}
OwnValues == {"a"}
DefaultValues == {"b"}

ScriptOpen == <<"<", "s", "c", "r", "i", "p", "t">>
ScriptClose == <<"<", "/", "s", "c", "r", "i", "p", "t", ">">>

\* The texts of the Text children.
TextChoices == {<<"<">>, ScriptOpen, ScriptClose}

\* What is given to the constructor, add and insert as a child.
ChildChoices ==
    {TextNode(s, 1) : s \in TextChoices} \cup {ElementNode("span", 1)}

\* Text.set(s)
Text_set(node, s) == [node EXCEPT !.s = s]

\* `sub in s` for strings.
Contains(s, sub) ==
    \E i \in 1..(Len(s) - Len(sub) + 1) : SubSeq(s, i, i + Len(sub) - 1) = sub

\* list.insert(at, child) for at in 0..len
ListInsert(l, at, child) ==
    SubSeq(l, 1, at) \o <<child>> \o SubSeq(l, at + 1, Len(l))

\* ParentNode.insert(at, *children): the children, last first, each
\* inserted at the position at.
RECURSIVE ParentNode_insert(_, _, _)
ParentNode_insert(l, at, children) ==
    IF children = <<>> THEN l
    ELSE ParentNode_insert(ListInsert(l, at, children[Len(children)]), at,
                           SubSeq(children, 1, Len(children) - 1))

\* Element.add_attrs((k, v)) with v a list of values: the Attr of name k is
\* made if the element has none, and updated.
Element_add_attrs(attrs, k, v) ==
    LET had == IF k \in DOMAIN attrs THEN attrs[k] ELSE {}
    IN  [n \in DOMAIN attrs \cup {k} |->
            IF n = k THEN Attr_update(had, v) ELSE attrs[n]]

\* dict.setdefault(key, value): the mapping afterwards.
SetDefault(d, key, value) ==
    IF key \in DOMAIN d THEN d ELSE [k \in DOMAIN d \cup {key} |->
                                        IF k = key THEN value ELSE d[k]]

\* Defaults.append_attrs(tag, name=values)
Defaults_append_attrs(tag2attrs, tag, name, values) ==
    LET t2a == SetDefault(tag2attrs, tag, <<>>)
        attrs == SetDefault(t2a[tag], name, {})
    IN  [t2a EXCEPT ![tag] = [attrs EXCEPT ![name] = Attr_update(@, values)]]

\* Defaults.set_attrs(tag, name=values)
Defaults_set_attrs(tag2attrs, tag, name, values) ==
    LET t2a == SetDefault(tag2attrs, tag, <<>>)
    IN  [t2a EXCEPT ![tag] = [n \in DOMAIN t2a[tag] \cup {name} |->
                                 IF n = name THEN Attr_update({}, values)
                                 ELSE t2a[tag][n]]]

\* Defaults.clear_attrs(tag)
Defaults_clear_attrs(tag2attrs, tag) ==
    [t \in DOMAIN tag2attrs \ {tag} |-> tag2attrs[t]]

\* Defaults.get_attrs(tag): tag2attrs.setdefault(tag, {}); the mapping the
\* registry holds afterwards, and the attributes returned.
Defaults_get_attrs(tag2attrs, tag) ==
    LET t2a == SetDefault(tag2attrs, tag, <<>>)
    IN  [tag2attrs |-> t2a, attrs |-> t2a[tag]]

\* Element.set_attrs(name, values): self.attrs[name] = Attr(name, values)
Element_set_attrs(attrs, name, values) ==
    [n \in DOMAIN attrs \cup {name} |->
        IF n = name THEN Attr_update({}, values) ELSE attrs[n]]

(* Rendering one element *)
Rendered(pieces) == [raised |-> FALSE, pieces |-> pieces]
RaisedBy == [raised |-> TRUE, pieces |-> <<>>]

\* Text.render(writer, parent): under a script element the value as it is,
\* and an exception when "<script" is in it; under any other parent the
\* value escaped.
Text_render_under(parentTag, node) ==
    IF parentTag = "script"
    THEN IF Contains(node.s, ScriptOpen) THEN RaisedBy
         ELSE Rendered(<<TextP(node.s)>>)
    ELSE Rendered(Text_render(node))

\* Element.render, lines 538-555: for an attribute name, the Attr rendered
\* and the extra Attr handed to its render.
AttrOf(attrs, defattrs, n) == IF n \in DOMAIN attrs THEN attrs[n] ELSE defattrs[n]

ExtraOf(attrs, defattrs, n) ==
    IF n \in DOMAIN attrs /\ n \in DOMAIN defattrs
    THEN [some |-> TRUE, values |-> defattrs[n]]
    ELSE NoExtra

\* The orders in which a render may meet the names and, for each name, the
\* values: attrnames and Attr.values are sets.
NameOrders(attrs, defattrs) == Perms(DOMAIN attrs \cup DOMAIN defattrs)

ValueOrders(attrs, defattrs) ==
    LET names == DOMAIN attrs \cup DOMAIN defattrs
        all == UNION {Perms(S) : S \in SUBSET (OwnValues \cup DefaultValues)}
    IN  {f \in [names -> all] :
            \A n \in names :
               f[n] \in Perms(Attr_kept(AttrOf(attrs, defattrs, n),
                                        ExtraOf(attrs, defattrs, n)))}

\* The orders of a render: those of the element rendered, and those of the
\* element children, which have the tag ChildTag and no attribute of their own.
ChildTag == "span"

RenderOrders(attrs, tag2attrs, tag) ==
    LET own == Defaults_get_attrs(tag2attrs, tag)
        child == Defaults_get_attrs(own.tag2attrs, ChildTag)
    IN  {[names |-> n, values |-> v, child |-> [names |-> cn, values |-> cv]] :
            n \in NameOrders(attrs, own.attrs), v \in ValueOrders(attrs, own.attrs),
            cn \in NameOrders(<<>>, child.attrs), cv \in ValueOrders(<<>>, child.attrs)}

\* attrsl: attr.render(extra) for every attribute name, in the order met.
Attrs_render(attrs, defattrs, nameOrder, valueOrder) ==
    [i \in 1..Len(nameOrder) |->
        [name |-> nameOrder[i],
         r |-> Attr_render(AttrOf(attrs, defattrs, nameOrder[i]),
                           ExtraOf(attrs, defattrs, nameOrder[i]),
                           valueOrder[nameOrder[i]])]]

\* What a render gives: the text returned, or the exception raised, and
\* the registry of defaults the writer holds afterwards.
RenderRaised(tag2attrs) ==
    [out |-> [done |-> TRUE, raised |-> TRUE, attrsl |-> <<>>, childrenl |-> <<>>,
              closed |-> FALSE, nl |-> FALSE, before |-> <<>>, rendered |-> <<>>],
     tag2attrs |-> tag2attrs]

RenderReturned(attrsl, childrenl, closed, nl, tag2attrs) ==
    [out |-> [done |-> TRUE, raised |-> FALSE, attrsl |-> attrsl,
              childrenl |-> childrenl, closed |-> closed, nl |-> nl, before |-> <<>>,
              rendered |-> <<>>],
     tag2attrs |-> tag2attrs]

RECURSIVE Element_render(_, _, _, _, _)

\* child.render(writer, self) for a child of the element: an element child
\* is rendered by Element.render with the writer of its parent.
Child_render(parentTag, node, tag2attrs, orders) ==
    CASE node.kind = "text" ->
            [r |-> Text_render_under(parentTag, node), tag2attrs |-> tag2attrs]
      [] node.kind = "comment" ->
            [r |-> Rendered(Comment_render(node)), tag2attrs |-> tag2attrs]
      [] OTHER ->
            LET e == Element_render(node.tag, <<>>, <<>>, tag2attrs, orders.child)
            IN  [r |-> [raised |-> e.out.raised,
                        pieces |-> <<[kind |-> "element", tag |-> node.tag,
                                      out |-> e.out]>>],
                 tag2attrs |-> e.tag2attrs]

RECURSIVE Children_render(_, _, _, _, _)
\* `for child in self.children: childrenl.append(child.render(writer, self))`
\* from child i on: an exception of a child ends the loop.
Children_render(parentTag, children, i, tag2attrs, orders) ==
    IF i > Len(children)
    THEN [raised |-> FALSE, childrenl |-> <<>>, tag2attrs |-> tag2attrs]
    ELSE LET one == Child_render(parentTag, children[i], tag2attrs, orders)
             rest == Children_render(parentTag, children, i + 1, one.tag2attrs, orders)
         IN  IF one.r.raised
             THEN [raised |-> TRUE, childrenl |-> <<>>, tag2attrs |-> one.tag2attrs]
             ELSE [raised |-> rest.raised,
                   childrenl |-> <<one.r.pieces>> \o rest.childrenl,
                   tag2attrs |-> rest.tag2attrs]

\* A render that treats every element as one that takes children.
Element_render_VoidAsParent(tag, attrs, children, tag2attrs, orders) ==
    LET got == Defaults_get_attrs(tag2attrs, tag)
        kids == Children_render(tag, children, 1, got.tag2attrs, orders)
    IN  IF kids.raised THEN RenderRaised(kids.tag2attrs)
        ELSE RenderReturned(Attrs_render(attrs, got.attrs, orders.names, orders.values),
                            kids.childrenl, TRUE, tag \in NL_ELEMENTS, kids.tag2attrs)

\* Element.render(writer, parent): the defaults of the tag are looked up
\* with get_attrs, the attributes are rendered, and, unless the element is
\* void, the children.
Element_render(tag, attrs, children, tag2attrs, orders) ==
    LET got == Defaults_get_attrs(tag2attrs, tag)
        attrsl == Attrs_render(attrs, got.attrs, orders.names, orders.values)
        nl == tag \in NL_ELEMENTS
        kids == Children_render(tag, children, 1, got.tag2attrs, orders)
    IN  IF is_void(tag)
        THEN RenderReturned(attrsl, <<>>, FALSE, nl, got.tag2attrs)
        ELSE IF kids.raised THEN RenderRaised(kids.tag2attrs)
        ELSE RenderReturned(attrsl, kids.childrenl, TRUE, nl, kids.tag2attrs)

(* Building, then rendering *)
\* The tags whose defaults are set up: that of the element, that of its
\* element children.
DefaultsTags == {wtag, ChildTag}

ElementAdd ==
    /\ ~wout.done
    /\ Len(wchildren) < MaxChildren
    /\ \E child \in ChildChoices : wchildren' = ParentNode_add(wchildren, child)
    /\ UNCHANGED <<wtag, wattrs, wdefaults, wout, offWriter>>

ElementInsert ==
    /\ ~wout.done
    /\ Len(wchildren) < MaxChildren
    /\ \E at \in 0..Len(wchildren) : \E child \in ChildChoices :
          wchildren' = ParentNode_insert(wchildren, at, <<child>>)
    /\ UNCHANGED <<wtag, wattrs, wdefaults, wout, offWriter>>

ElementAddAttrs ==
    /\ ~wout.done
    /\ \E k \in AttrNames : \E v \in SeqsUpTo(OwnValues \cup {""}, 1) :
          wattrs' = Element_add_attrs(wattrs, k, v)
    /\ UNCHANGED <<wtag, wchildren, wdefaults, wout, offWriter>>

ElementSetAttrs ==
    /\ ~wout.done
    /\ \E name \in AttrNames : \E values \in SeqsUpTo(OwnValues \cup {"b"}, 1) :
          wattrs' = Element_set_attrs(wattrs, name, values)
    /\ UNCHANGED <<wtag, wchildren, wdefaults, wout, offWriter>>

DefaultsAppendAttrs ==
    /\ ~wout.done
    /\ \E tag \in DefaultsTags, name \in AttrNames, values \in SeqsUpTo(DefaultValues, 1) :
          wdefaults' = Defaults_append_attrs(wdefaults, tag, name, values)
    /\ UNCHANGED <<wtag, wattrs, wchildren, wout, offWriter>>

DefaultsSetAttrs ==
    /\ ~wout.done
    /\ \E tag \in DefaultsTags, name \in AttrNames, values \in SeqsUpTo(DefaultValues, 1) :
          wdefaults' = Defaults_set_attrs(wdefaults, tag, name, values)
    /\ UNCHANGED <<wtag, wattrs, wchildren, wout, offWriter>>

DefaultsClearAttrs ==
    /\ ~wout.done
    /\ \E tag \in DefaultsTags : wdefaults' = Defaults_clear_attrs(wdefaults, tag)
    /\ UNCHANGED <<wtag, wattrs, wchildren, wout, offWriter>>

\* Text.set(s) on a Text child the element holds, before or after a render.
TextSet ==
    /\ \E i \in DOMAIN wchildren : \E s \in TextChoices :
          /\ wchildren[i].kind = "text"
          /\ wchildren' = [wchildren EXCEPT ![i] = Text_set(@, s)]
    /\ UNCHANGED <<wtag, wattrs, wdefaults, wout, offWriter>>

\* HTMLWriter.render of the element: self.root.render(self, None).
ElementRender ==
    /\ \E orders \in RenderOrders(wattrs, wdefaults, wtag) :
          LET r == Element_render(wtag, wattrs, wchildren, wdefaults, orders)
          IN  /\ wout' = [r.out EXCEPT !.before = wdefaults, !.rendered = wchildren]
              /\ wdefaults' = r.tag2attrs
    /\ UNCHANGED <<wtag, wattrs, wchildren, offWriter>>

\* Element(tag, *children) and HTMLWriter()
WriterInit ==
    /\ wtag \in WriterTags
    /\ wattrs = <<>>
    /\ wchildren \in SeqsUpTo(ChildChoices, 1)
    /\ wdefaults = <<>>
    /\ wout = NoOutput
    /\ CoreIdle
    /\ AttrIdle
    /\ ServerIdle
    /\ FindIdle
    /\ GateIdle

WriterNext ==
    \/ ElementAdd
    \/ ElementInsert
    \/ ElementAddAttrs
    \/ ElementSetAttrs
    \/ DefaultsAppendAttrs
    \/ DefaultsSetAttrs
    \/ DefaultsClearAttrs
    \/ TextSet
    \/ ElementRender

SpecWriter == WriterInit /\ [][WriterNext]_vars

(***************************************************************************)
(* RudiServer (main.py 647-737): setup_space_order, setup_spaces, the      *)
(* construction of each RudiSpace with its transformers, and get_space     *)
(*                                                                         *)
(* A docpath is the sequence of its segments.  A regexp of a space is a    *)
(* literal path: re.match anchors it at the start of the docpath, so it    *)
(* matches the docpaths it is a prefix of.                                 *)
(***************************************************************************)
SpaceNames == {"s1", "s2"}
OrderNames == {"s1", "s2", "s3"}

Docpaths == {<<"a", "x">>, <<"b", "x">>}
RegexpChoices == {<<>>, <<<<>>>>, <<<<"a">>>>, <<<<"b">>, <<"a">>>>}

\* The function references of a configuration: the second one names no
\* function that can be imported.
FunctionRefs == {"html2html", "nosuch"}

TransformerConfigs ==
    {<<>>, [ext \in {".md"} |-> <<"html2html">>],
     [ext \in {".txt", "pre"} |-> IF ext = ".txt" THEN <<"html2html">> ELSE <<>>]}
    \cup {[ext \in {".html"} |-> l] : l \in SeqsUpTo(FunctionRefs, 2) \ {<<>>}}

\* A "transformers" mapping with its keys in each order a configuration
\* can list them.
OrderedTransformerConfigs ==
    UNION {{[t |-> t, keys |-> keys] : keys \in KeyOrders(t)} : t \in TransformerConfigs}

\* The sequences of distinct elements of S.
Arrangements(S) == UNION {Perms(T) : T \in SUBSET S}

\* config["spaces"]: the entries in the order of the mapping.
SpacesConfigs ==
    UNION {{[i \in 1..Len(names) |-> [name |-> names[i], regexps |-> f[i].r,
                                      transformers |-> f[i].o.t, keys |-> f[i].o.keys]]
            : f \in [1..Len(names) ->
                       {[r |-> r, o |-> o] : r \in RegexpChoices,
                                             o \in OrderedTransformerConfigs}]}
           : names \in Arrangements(SpaceNames)}

ServerConfigs ==
    {[order |-> o, spaces |-> sp] : o \in Arrangements(OrderNames), sp \in SpacesConfigs}

\* cregexp.match(docpath)
re_match(regexp, docpath) ==
    /\ Len(regexp) <= Len(docpath)
    /\ SubSeq(docpath, 1, Len(regexp)) = regexp

\* RudiSpace.is_match
is_match(space, docpath) ==
    \E i \in 1..Len(space.regexps) : re_match(space.regexps[i], docpath)

\* RudiTransformer.__init__: import_module and getattr raise for a
\* reference that names no function, and the exception is raised again.
RudiTransformer_init(absfname) ==
    [raised |-> absfname \notin TransformerFns, absfname |-> absfname]

\* A set-up that leaves out the transformers it cannot load.
setup_transformers_Drop(config, keys) ==
    [raised |-> FALSE,
     ext2transformers |->
        [ext \in DOMAIN config |->
            SelectSeq(config[ext], LAMBDA ref : ~RudiTransformer_init(ref).raised)],
     keys |-> keys,
     extended |-> keys]

\* RudiSpace.setup_transformers: a list of RudiTransformer per extension,
\* then DECORATABLE_EXTENSIONS.extend(self.get_transformer_extensions());
\* an exception of a constructor leaves the method before the extend.
\* `for ext, l in self.config.get("transformers", {}).items()` inserts the
\* keys in the order the configuration lists them.
setup_transformers(config, keys) ==
    LET raised == \E ext \in DOMAIN config : \E i \in 1..Len(config[ext]) :
                     RudiTransformer_init(config[ext][i]).raised
        e2t == [ext \in DOMAIN config |->
                  [i \in 1..Len(config[ext]) |->
                      RudiTransformer_init(config[ext][i]).absfname]]
    IN  [raised |-> raised,
         ext2transformers |-> e2t,
         keys |-> keys,
         extended |-> IF raised THEN <<>>
                      ELSE get_transformer_extensions(
                              [keys |-> keys, ext2transformers |-> e2t])]

\* RudiSpace.__init__
RudiSpace_init(spaceconfig) ==
    LET st == setup_transformers(spaceconfig.transformers, spaceconfig.keys)
    IN  [raised |-> st.raised,
         extended |-> st.extended,
         space |-> [name |-> spaceconfig.name, regexps |-> spaceconfig.regexps,
                    ext2transformers |-> st.ext2transformers, keys |-> st.keys]]

RECURSIVE get_space_from(_, _, _, _)
\* RudiServer.get_space from position i of self.spaceorder on: the first
\* space that matches; self.spaces.get gives None for a name that is not
\* configured, and None.is_match raises AttributeError.
get_space_from(spaceorder, spaces, docpath, i) ==
    IF i > Len(spaceorder) THEN [raised |-> FALSE, space |-> None]
    ELSE IF spaceorder[i] \notin DOMAIN spaces THEN [raised |-> TRUE, space |-> None]
    ELSE IF is_match(spaces[spaceorder[i]], docpath)
         THEN [raised |-> FALSE, space |-> spaceorder[i]]
    ELSE get_space_from(spaceorder, spaces, docpath, i + 1)

get_space(spaceorder, spaces, docpath) == get_space_from(spaceorder, spaces, docpath, 1)

\* One pass of the loop of setup_spaces: the next RudiSpace is constructed.
SetupSpace ==
    /\ sphase = "setup"
    /\ Cardinality(DOMAIN sspaces) < Len(sconfig.spaces)
    /\ LET made == RudiSpace_init(sconfig.spaces[Cardinality(DOMAIN sspaces) + 1])
       IN  /\ IF made.raised
              THEN /\ sphase' = "failed"
                   /\ UNCHANGED sspaces
              ELSE /\ sspaces' = [n \in DOMAIN sspaces \cup {made.space.name} |->
                                    IF n = made.space.name THEN made.space
                                    ELSE sspaces[n]]
                   /\ UNCHANGED sphase
           /\ decoratable' = decoratable \o made.extended
    /\ UNCHANGED <<sconfig, scall, offServer>>

\* The loop is over: RudiServer.__init__ returns and the server serves.
ServeForever ==
    /\ sphase = "setup"
    /\ Cardinality(DOMAIN sspaces) = Len(sconfig.spaces)
    /\ sphase' = "up"
    /\ UNCHANGED <<sconfig, sspaces, scall, decoratable, offServer>>

\* do_ALL up to "no space found": get_space, then do_404_response when it
\* returned None; an exception of get_space leaves do_ALL with no response.
LookupSpace ==
    /\ sphase = "up"
    /\ \E docpath \in Docpaths :
          LET got == get_space(sconfig.order, sspaces, docpath)
          IN  scall' = [done |-> TRUE, docpath |-> docpath, raised |-> got.raised,
                        space |-> got.space,
                        status |-> IF got.raised THEN None
                                   ELSE IF got.space = None THEN "404" ELSE "found"]
    /\ UNCHANGED <<sconfig, sphase, sspaces, decoratable, offServer>>

\* RudiServer.__init__(config): setup_space_order, then setup_spaces.
ServerInit ==
    /\ sconfig \in ServerConfigs
    /\ sphase = "setup"
    /\ sspaces = <<>>
    /\ scall = NoRequest
    /\ decoratable = DECORATABLE_EXTENSIONS
    /\ CoreIdle
    /\ AttrIdle
    /\ WriterIdle
    /\ FindIdle
    /\ GateIdle

ServerNext ==
    \/ SetupSpace
    \/ ServeForever
    \/ LookupSpace

SpecServer == ServerInit /\ [][ServerNext]_vars

(***************************************************************************)
(* lib/htmlwriter.py: ParentNode.walk, find and find1                      *)
(*                                                                         *)
(* A tree is the sequence of its nodes in the order of their creation,     *)
(* each with the index of its parent (0 for the node find is called on at  *)
(* the top); add() appends, so the children of a node are in the order of  *)
(* their indices.  A generator is the walk position it has reached.        *)
(***************************************************************************)
MaxFindNodes == 3

FindTags == {"div", "span"}
FindTexts == {<<"a">>}

\* The nodes that hold children: the top node and the elements.
Parents(nodes) == {0} \cup {i \in 1..Len(nodes) : nodes[i].kind = "element"}

\* What add() builds: each new node is appended to the children of the top
\* node or of an element made before it.
RECURSIVE CreatedTrees(_)
CreatedTrees(n) ==
    IF n = 0 THEN {<<>>}
    ELSE LET prev == CreatedTrees(n - 1)
             full == {t \in prev : Len(t) = n - 1}
             Grow(t) ==
                UNION {{Append(t, ElementNode(tag, p)) : tag \in FindTags}
                       \cup {Append(t, TextNode(s, p)) : s \in FindTexts}
                       : p \in Parents(t)}
         IN  prev \cup UNION {Grow(t) : t \in full}

\* The objects handed to find and find1.
Queries == {ElementNode("div", 0), TextNode(<<"a">>, 0), CommentNode(<<"a">>, 0)}

\* Node.match(o): the same class, and _match: the same tag for elements,
\* the same string for texts and comments.
Node_match(node, o) ==
    /\ node.kind = o.kind
    /\ IF node.kind = "element" THEN node.tag = o.tag ELSE node.s = o.s

\* A walk that yields the descendants in the order of their creation.
ParentNode_walk_CreationOrder(nodes, p) ==
    LET RECURSIVE Under(_)
        Under(i) == IF i = p THEN TRUE ELSE IF i = 0 THEN FALSE ELSE Under(nodes[i].parent)
        RECURSIVE From(_)
        From(j) == IF j > Len(nodes) THEN <<>>
                   ELSE (IF j # p /\ Under(j) THEN <<j>> ELSE <<>>) \o From(j + 1)
    IN  From(1)

\* ParentNode.walk: each child, and after an Element child its own walk.
ParentNode_walk(nodes, p) ==
    LET RECURSIVE WalkFrom(_, _)
        WalkFrom(q, j) ==
            IF j > Len(nodes) THEN <<>>
            ELSE IF nodes[j].parent # q THEN WalkFrom(q, j + 1)
            ELSE <<j>> \o (IF nodes[j].kind = "element" THEN WalkFrom(j, j + 1) ELSE <<>>)
                 \o WalkFrom(q, j + 1)
    IN  WalkFrom(p, 1)

\* ParentNode.find(o), run to its end: the nodes of the walk that match.
ParentNode_find(nodes, p, o) ==
    SelectSeq(ParentNode_walk(nodes, p), LAMBDA i : Node_match(nodes[i], o))

\* ParentNode.find1(o): the first node find yields, or 0 for None.
ParentNode_find1(nodes, p, o) ==
    IF ParentNode_find(nodes, p, o) = <<>> THEN 0 ELSE Head(ParentNode_find(nodes, p, o))

\* find(o) is called: a new generator, nothing of the walk consumed.
Find ==
    /\ \E start \in Parents(ftree), o \in Queries :
          fgen' = [made |-> TRUE, start |-> start, o |-> o, pos |-> 0, out |-> <<>>,
                   exhausted |-> FALSE]
    /\ UNCHANGED <<ftree, fone, offFind>>

\* next() on the generator: the walk goes on to the next node that matches.
FindNext ==
    /\ fgen.made
    /\ ~fgen.exhausted
    /\ LET w == ParentNode_walk(ftree, fgen.start)
           ks == {k \in (fgen.pos + 1)..Len(w) : Node_match(ftree[w[k]], fgen.o)}
       IN  IF ks = {}
           THEN fgen' = [fgen EXCEPT !.pos = Len(w), !.exhausted = TRUE]
           ELSE LET k == CHOOSE x \in ks : \A y \in ks : x <= y
                IN  fgen' = [fgen EXCEPT !.pos = k, !.out = Append(@, w[k])]
    /\ UNCHANGED <<ftree, fone, offFind>>

\* find1(o) is called: a generator of its own, left after its first node.
Find1 ==
    /\ \E start \in Parents(ftree), o \in Queries :
          fone' = [done |-> TRUE, start |-> start, o |-> o,
                   result |-> ParentNode_find1(ftree, start, o)]
    /\ UNCHANGED <<ftree, fgen, offFind>>

FindInit ==
    /\ ftree \in CreatedTrees(MaxFindNodes)
    /\ fgen = NoGenerator
    /\ fone = NoFind1
    /\ CoreIdle
    /\ AttrIdle
    /\ WriterIdle
    /\ ServerIdle
    /\ GateIdle

FindStep ==
    \/ Find
    \/ FindNext
    \/ Find1

SpecFind == FindInit /\ [][FindStep]_vars

(***************************************************************************)
(* RudiHandler.do_ALL: the checks before a response (main.py 403-450),     *)
(* RudiAccess.is_authorized (155-180), RudiFile.is_newer (357-362) and the *)
(* 304 branch of do_asis_response (499-507)                                *)
(*                                                                         *)
(* A docpath is its segments and whether it ends with "/".  An             *)
(* Authorization header is the number of its blank-separated parts, its    *)
(* scheme, whether its credentials decode, and the parts the decoded       *)
(* credentials split into at ":".  Times are whole seconds.                *)
(***************************************************************************)
\* docpath: "/.rudi/x", "/.rudi/", "/.rudi", "/.rudix/x", "/a/x"
GateDocpaths ==
    {[segs |-> <<".rudi", "x">>, slash |-> FALSE], [segs |-> <<".rudi">>, slash |-> TRUE],
     [segs |-> <<".rudi">>, slash |-> FALSE], [segs |-> <<".rudix", "x">>, slash |-> FALSE],
     [segs |-> <<"a", "x">>, slash |-> FALSE]}

\* docpath.startswith("/.rudi/")
StartsWithRudi(docpath) ==
    /\ docpath.segs # <<>>
    /\ docpath.segs[1] = ".rudi"
    /\ (Len(docpath.segs) > 1 \/ docpath.slash)

\* docpath.endswith("/")
EndsWithSlash(docpath) == docpath.slash \/ docpath.segs = <<>>

\* The Authorization header: absent, or a string.
NoAuthorization ==
    [present |-> FALSE, nparts |-> 0, scheme |-> "", decodes |-> FALSE, creds |-> <<>>]

AuthorizationHeader(nparts, scheme, decodes, creds) ==
    [present |-> TRUE, nparts |-> nparts, scheme |-> scheme, decodes |-> decodes,
     creds |-> creds]

\* "", "Basic", "Bearer t", "Basic <not UTF-8>", "BASIC" and "bAsIc" with
\* the credentials "u:p", and Basic with the credentials "u:p", "u:x",
\* "v:p", "up", "u:p:q" and "n:".
AuthorizationHeaders ==
    {NoAuthorization,
     AuthorizationHeader(0, "", FALSE, <<>>),
     AuthorizationHeader(1, "Basic", FALSE, <<>>),
     AuthorizationHeader(2, "Bearer", TRUE, <<"u", "p">>),
     AuthorizationHeader(2, "Basic", FALSE, <<>>),
     AuthorizationHeader(2, "BASIC", TRUE, <<"u", "p">>),
     AuthorizationHeader(2, "bAsIc", TRUE, <<"u", "p">>)}
    \cup {AuthorizationHeader(2, "Basic", TRUE, c) :
            c \in {<<"u", "p">>, <<"u", "x">>, <<"v", "p">>, <<"up">>, <<"u", "p", "q">>,
                   <<"n", "">>}}

\* authkind.lower()
LowerScheme(scheme) == str_lower(scheme)

\* The top configuration: "require-authorization" (absent, true or false)
\* and "accounts": user -> the "password" of the account, None without one.
AccessConfigs ==
    {[require |-> r, accounts |-> a] :
        r \in {"absent", "true", "false"},
        a \in {<<>>, [u \in {"u", "n"} |-> IF u = "u" THEN "p" ELSE None]}}

\* An is_authorized that takes any decodable Basic credentials.
is_authorized_AnyBasic(config, header) ==
    IF config.require = "false" THEN TRUE
    ELSE /\ header.present
         /\ header.nparts = 2
         /\ LowerScheme(header.scheme) = "basic"
         /\ header.decodes

\* RudiAccess.is_authorized: an exception (a header of one part,
\* credentials that do not decode or do not split into two) gives False.
is_authorized(config, header) ==
    IF config.require = "false" THEN TRUE
    ELSE IF ~header.present \/ header.nparts = 0 THEN FALSE
    ELSE IF header.nparts < 2 THEN FALSE
    ELSE IF LowerScheme(header.scheme) # "basic" THEN FALSE
    ELSE IF ~header.decodes THEN FALSE
    ELSE IF Len(header.creds) # 2 THEN FALSE
    ELSE LET user == header.creds[1]
             passwd == header.creds[2]
             password == IF user \in DOMAIN config.accounts
                         THEN config.accounts[user] ELSE None
         IN  password = passwd

\* What do_ALL reads: the space found, the docpath, the headers, the file.
GateInputs ==
    {[found |-> found, stype |-> stype, docpath |-> docpath, config |-> config,
      authorization |-> header, isdir |-> FALSE, exists |-> exists, ext |-> ext,
      since |-> since, mtime |-> mtime] :
        found \in BOOLEAN, stype \in {"asis", "default"}, docpath \in GateDocpaths,
        config \in AccessConfigs, header \in AuthorizationHeaders,
        exists \in BOOLEAN, ext \in {".html", ".txt"},
        since \in SinceHeaders, mtime \in 0..MaxTime}

\* A response: the status and what the payload was made from.
GateResponse(status, body) == [status |-> status, body |-> body]

\* A do_ALL that goes on after a status response.
Return_FallThrough(next) == next

\* `return` after do_404_response, do_401_response and do_301_response.
Return(next) == "done"

\* rudis == None
CheckSpace ==
    /\ qpc = "space"
    /\ IF ~qin.found
       THEN /\ qsent' = Append(qsent, GateResponse("404", "none"))
            /\ qpc' = Return("rudi")
       ELSE /\ qpc' = "rudi"
            /\ UNCHANGED qsent
    /\ UNCHANGED <<qin, qauth, offGate>>

\* docpath.startswith("/.rudi/")
CheckRudi ==
    /\ qpc = "rudi"
    /\ IF StartsWithRudi(qin.docpath)
       THEN /\ qsent' = Append(qsent, GateResponse("404", "none"))
            /\ qpc' = Return("auth")
       ELSE /\ qpc' = "auth"
            /\ UNCHANGED qsent
    /\ UNCHANGED <<qin, qauth, offGate>>

\* server.rudi_access.is_authorized(self.headers, docpath) == False
CheckAuth ==
    /\ qpc = "auth"
    /\ LET ok == is_authorized(qin.config, qin.authorization)
       IN  /\ qauth' = IF ok THEN "True" ELSE "False"
           /\ IF ~ok
              THEN /\ qsent' = Append(qsent, GateResponse("401", "none"))
                   /\ qpc' = Return("dir")
              ELSE /\ qpc' = "dir"
                   /\ UNCHANGED qsent
    /\ UNCHANGED <<qin, offGate>>

\* not rudif.docpath.endswith("/") and rudif.is_dir()
CheckDir ==
    /\ qpc = "dir"
    /\ IF ~EndsWithSlash(qin.docpath) /\ qin.isdir
       THEN /\ qsent' = Append(qsent, GateResponse("301", "none"))
            /\ qpc' = Return("exists")
       ELSE /\ qpc' = "exists"
            /\ UNCHANGED qsent
    /\ UNCHANGED <<qin, qauth, offGate>>

\* not rudif.exists()
CheckExists ==
    /\ qpc = "exists"
    /\ IF ~qin.exists
       THEN /\ qsent' = Append(qsent, GateResponse("404", "none"))
            /\ qpc' = Return("respond")
       ELSE /\ qpc' = "respond"
            /\ UNCHANGED qsent
    /\ UNCHANGED <<qin, qauth, offGate>>

\* do_asis_response of a space without transformers: 304, or the content;
\* a header that is no date raises in is_newer and nothing is sent.
do_asis_response(since, mtime) ==
    CASE modified_since(since, mtime) = "raise" -> <<>>
      [] modified_since(since, mtime) = "304" -> <<GateResponse("304", "none")>>
      [] OTHER -> <<GateResponse("200", "content")>>

\* do_asis_response, or do_default_response by the extension; the spaces
\* of this server configure no transformers, and DECORATABLE_EXTENSIONS is
\* as the import left it.
Respond ==
    /\ qpc = "respond"
    /\ qsent' = qsent \o
          (IF qin.stype = "asis" THEN do_asis_response(qin.since, qin.mtime)
           ELSE IF qin.ext \in Range(decoratable)
           THEN <<GateResponse("200", "render")>>
           ELSE IF qin.ext \in AsisExtensions
           THEN do_asis_response(qin.since, qin.mtime)
           ELSE <<>>)
    /\ qpc' = "done"
    /\ UNCHANGED <<qin, qauth, offGate>>

\* A request arrives.
GateInit ==
    /\ \E input \in GateInputs, isdir \in BOOLEAN :
          qin = [input EXCEPT !.isdir = isdir /\ input.exists]
    /\ qpc = "space"
    /\ qauth = None
    /\ qsent = <<>>
    /\ CoreIdle
    /\ AttrIdle
    /\ WriterIdle
    /\ ServerIdle
    /\ FindIdle

GateNext ==
    \/ CheckSpace
    \/ CheckRudi
    \/ CheckAuth
    \/ CheckDir
    \/ CheckExists
    \/ Respond

SpecGate == GateInit /\ [][GateNext]_vars

(***************************************************************************)
(* Properties                                                              *)
(***************************************************************************)
\* The chain configured under a key, the empty chain when there is none.
ChainOf(e2t, key) == IF key \in DOMAIN e2t THEN e2t[key] ELSE <<>>

\* C1: get_transformers(ext) returns the "pre" chain, then the chain of ext,
\* then the "post" chain, in that order (an absent chain counts as empty);
\* get_transformers(ext, extonly=True) returns exactly the chain of ext.
C1_ChainOrder ==
    gtCall.ext # None =>
        LET cfg == gtCall.before
            P == ChainOf(cfg, "pre")
            E == ChainOf(cfg, gtCall.ext)
            Q == ChainOf(cfg, "post")
        IN  gtCall.result = IF gtCall.extonly THEN E ELSE P \o E \o Q

\* The example of the specification: pre=[A], ext=[B,C], post=[D].
C1_Witness ==
    /\ gtCall.ext = ".html" /\ ~gtCall.extonly
    /\ gtCall.before = [k \in ChainKeys |->
            CASE k = "pre" -> <<"A">> [] k = "post" -> <<"D">>
              [] OTHER -> <<"B", "C">>]
    /\ gtCall.result = <<"A", "B", "C", "D">>

\* The root the loop holds after the invocations made so far.
RootAfter(log) ==
    IF log = <<>> THEN InitialDoc
    ELSE LET e == log[Len(log)]
         IN  IF e.kind = "return" THEN e.rootOut ELSE e.rootIn

\* C2: the first transformer gets the initial document, transformer i+1 gets
\* the root transformer i returned, or the root transformer i was given when
\* it returned nothing; the document rendered is the root left after the
\* last transformer of the chain.
C2_TreeThreaded ==
    /\ \A j \in 1..Len(invoked) :
          invoked[j].rootIn = RootAfter(SubSeq(invoked, 1, j - 1))
    /\ \A i \in 1..Len(responses) :
          responses[i].payload.kind = "render" =>
              /\ Len(invoked) = Len(chain)
              /\ responses[i].payload.doc = RootAfter(invoked)

\* A chain of three ran on a text document: the first transformer returned
\* nothing, the second returned a newly parsed tree, the third got that tree
\* and the document rendered is the tree it returned.
C2_Witness ==
    /\ Len(invoked) = 3 /\ Len(responses) = 1
    /\ invoked[1].kind = "nothing"
    /\ invoked[2].kind = "return" /\ invoked[2].rootOut.origin = 2
    /\ invoked[3].rootIn.origin = 2 /\ invoked[3].kind = "return"
    /\ responses[1].payload.doc = invoked[3].rootOut
    /\ responses[1].payload.doc # invoked[3].rootIn

\* C3: a transformer that raises is the last one invoked for the request,
\* and no 200 response is sent for the request.
C3_ShortCircuit ==
    \A j \in 1..Len(invoked) :
        invoked[j].kind = "raise" =>
            /\ j = Len(invoked)
            /\ \A i \in 1..Len(responses) : responses[i].status # "200"

\* The first transformer of a longer chain raised and the handler returned.
C3_Witness ==
    /\ hpc = "done"
    /\ Len(chain) >= 2
    /\ Len(invoked) = 1 /\ invoked[1].kind = "raise"

\* C4: the exception the pipeline raises to its caller names the transformer
\* that failed and holds the underlying cause.
C4_FailureNamesTransformer ==
    surfaced # NoExc =>
        /\ invoked[Len(invoked)].fn \in Range(surfaced.text)
        /\ "UnicodeDecodeError" \in Range(surfaced.text)
              \/ "AttributeError" \in Range(surfaced.text)

\* C5: a request whose chain failed has been sent a failure response when
\* its handler returns.
C5_FailureResponse ==
    (hpc = "done" /\ surfaced # NoExc) =>
        \E i \in 1..Len(responses) : responses[i].status \in {"500", "404", "401"}

\* The values a request of thread r supplies or has configured.
ValuesOf(r) ==
    {ContentOf(r), BrandOf(r), tcfg.kwargs[r]._content, tcfg.kwargs[r].brand_name}
        \ {None}

\* The values a rendered text holds.
OutValues(text) == {text[i].value : i \in 1..Len(text)}

Other(r) == 3 - r

\* C6: the text rendered for a request holds no value that the request of
\* the other thread supplied or had configured, and no request leaves a
\* value in a module-level node.
C6_NoCrossContamination ==
    /\ \A r \in Reqs : OutValues(tout[r].text) \cap ValuesOf(Other(r)) = {}
    /\ fragments = ModuleFragments

\* Two requests ran the same chain at the same time and both were answered
\* with the text of their document.
C6_BothAnswered ==
    /\ \A r \in Reqs : tout[r].sent /\ tout[r].text # <<>>
    /\ \E r \in Reqs : Len(tout[r].text) > 1

\* The node objects reachable from the tree of the request of thread r.
Reachable(r) ==
    IF troot[r] \in DOMAIN theap THEN Range(theap[troot[r]].nodes) ELSE {}

\* C7: the trees of two requests are two objects that share no node, and
\* every node of a tree was created for the request of that tree.
C7_TreesDisjoint ==
    /\ Reachable(1) \cap Reachable(2) = {}
    /\ \A r \in Reqs : \A n \in Reachable(r) : n.req = r
    /\ \A r \in Reqs : troot[r] # NoTreeId => troot[r] # troot[Other(r)]

\* Two requests are being rendered, each from a tree into which
\* addhtmlhead and html2html have put their nodes.
C7_BothSpliced ==
    \A r \in Reqs :
        /\ tpc[r] = "render"
        /\ \E n \in Reachable(r) : n.part = "head"
        /\ \E n \in Reachable(r) : n.part = "body"

\* C8: two requests for the same document through the same chain with the
\* same configuration are answered with the same text.
C8_SameOutput ==
    \A r \in Reqs :
        (tout[r].sent /\ tprev[r].some /\ tprev[r].kind = tin[r])
            => tout[r].text = tprev[r].text

\* C9: when the text rendered from a tree of non-void elements, texts and
\* comments has been parsed, the tree built is the tree rendered, node for
\* node: kinds, tags, payloads, and the order and number of children.
C9_RoundTrip ==
    (porig.some /\ ParseDone) => ptree = porig.nodes

\* The text nodes of a tree.
TextsIn(nodes) == {nodes[i].s : i \in {j \in 1..Len(nodes) : nodes[j].kind = "text"}}

\* The runs of characters the tokenizer handed over.
DataOf(events) == {events[i].s : i \in {j \in 1..Len(events) : events[j].k = "data"}}

\* An end tag was ignored while an element was open.
MismatchedEndTag == \E i \in 1..Len(pwarnings) : pwarnings[i].last # 0

\* C10: when the parser has consumed a text in which an end tag did not
\* match the element open at that point, every run of characters of the
\* text is a Text node of the tree and is_valid() is false.
C10_MismatchInvalid ==
    (~porig.some /\ ParseDone /\ MismatchedEndTag)
        => /\ DataOf(goahead(pdoc)) \subseteq TextsIn(ptree)
           /\ ~is_valid

\* C11: when the parser has consumed a text and ignored an end tag on the
\* way (a stray one at the Root or one that did not match the open element),
\* is_valid() is false; is_valid() is true only when no end tag was ignored
\* and every element opened was closed.
C11_IgnoredMeansInvalid ==
    (~porig.some /\ ParseDone /\ pwarnings # <<>>) => ~is_valid

\* C12: a render of an Attr that keeps no value (its values and those of the
\* extra Attr, the falsy ones left out) is the bare name, never name="";
\* a render that keeps values is name="..." with each kept value once.
C12_AttrRender ==
    aout.done =>
        LET kept == {v \in aout.values \cup aout.extra : ~Falsy(v)}
        IN  IF kept = {}
            THEN ~aout.quoted /\ aout.vals = <<>>
            ELSE /\ aout.quoted
                 /\ Len(aout.vals) = Cardinality(kept)
                 /\ \A v \in kept :
                       Cardinality({i \in 1..Len(aout.vals) :
                                       aout.vals[i] = escape(<<v>>, TRUE)}) = 1

\* An Attr that held only falsy values was rendered with an extra Attr.
C12_Witness ==
    /\ aout.done
    /\ aout.values # {}
    /\ "" \in aout.extra
    /\ ~aout.quoted

\* C13: the render of an element with a void tag writes no end tag and
\* nothing of any child, whatever children the element was given.
C13_VoidNoChildren ==
    (wout.done /\ is_void(wtag)) =>
        /\ ~wout.raised
        /\ ~wout.closed
        /\ wout.childrenl = <<>>

\* A void element that was given two children was rendered.
C13_Witness ==
    /\ wout.done
    /\ is_void(wtag)
    /\ Len(wchildren) >= 2

\* C14: a void element that was given children is not rendered with
\* success: giving it children is surfaced as an error, at the latest by
\* the render.
C14_VoidChildrenSurfaced ==
    (wout.done /\ is_void(wtag) /\ wchildren # <<>>) => wout.raised

\* The values of a set as render writes them.
EscapedValues(S) == {escape(<<v>>, TRUE) : v \in {x \in S : ~Falsy(x)}}

\* C15: an attribute that the element and the defaults of its tag both hold
\* is written once, the values of the element first, then those of the
\* defaults that the element does not hold.
C15_OwnThenDefaults ==
    (wout.done /\ ~wout.raised) =>
        \A n \in DOMAIN wattrs \cap DOMAIN wdefaults[wtag] :
           LET hits == {i \in 1..Len(wout.attrsl) : wout.attrsl[i].name = n}
               own == EscapedValues(wattrs[n])
           IN  /\ Cardinality(hits) = 1
               /\ \A i \in hits : \A j \in 1..Cardinality(own) :
                     wout.attrsl[i].r.vals[j] \in own

\* C16: the registry of defaults holds after a render the mapping it held
\* before it.
C16_DefaultsUnchanged ==
    wout.done => wdefaults = wout.before

\* The opening of an end tag of script: "</script"
ScriptEnd == SubSeq(ScriptClose, 1, Len(ScriptClose) - 1)

\* C20: under a script element the render of a text raises when the text
\* holds "</script", and otherwise gives the text as it is; under any other
\* element it gives the text escaped.
C20_ScriptTextRejected ==
    (wout.done /\ wtag = "script"
       /\ \E i \in 1..Len(wout.rendered) :
             wout.rendered[i].kind = "text" /\ Contains(wout.rendered[i].s, ScriptEnd))
        => wout.raised

\* C18: for a request resolved to a space of type asis, no transformer is
\* run and the payload of a 200 response is the content loaded.
C18_AsisUnmodified ==
    hreq.stype = "asis" =>
        /\ invoked = <<>>
        /\ \A i \in 1..Len(responses) :
              responses[i].status = "200" =>
                 responses[i].payload = ContentPayload(hreq.content)

\* The positions of space-order that name a configured space matching docpath.
Matching(spaceorder, spaces, docpath) ==
    {i \in 1..Len(spaceorder) :
        spaceorder[i] \in DOMAIN spaces /\ is_match(spaces[spaceorder[i]], docpath)}

\* C17: get_space returns the matching space that space-order names first,
\* whatever the order of the spaces mapping; when no space named in
\* space-order matches it returns None and the request is answered with 404.
C17_SpaceOrder ==
    scall.done =>
        LET m == Matching(sconfig.order, sspaces, scall.docpath)
        IN  /\ ~scall.raised
            /\ IF m = {}
               THEN scall.space = None /\ scall.status = "404"
               ELSE scall.space = sconfig.order[CHOOSE i \in m : \A j \in m : i <= j]

\* The function references that the configuration of a space lists.
RefsOf(spaceconfig) ==
    UNION {Range(spaceconfig.transformers[ext]) : ext \in DOMAIN spaceconfig.transformers}

C21_FirstAddedOrder ==
    [][(aout'.done /\ aout' # aout /\ aout'.extra = {}) =>
          /\ avalues = Range(aadded)
          /\ \A i, j \in 1..Len(aadded) : i # j => aadded[i] # aadded[j]
          /\ aout'.vals = [i \in 1..Len(SelectSeq(aadded, LAMBDA v : ~Falsy(v))) |->
                             escape(<<SelectSeq(aadded, LAMBDA v : ~Falsy(v))[i]>>, TRUE)]]_vars

\* C22: an end tag met while the current node is the Root, or whose name
\* is not the tag of the current element, leaves the stack, the current
\* node and the tree as they were; nothing is raised and the parse goes on
\* with the next event.
C22_StrayEndTagIgnored ==
    [][(HasEvent("end") /\ (plast = 0 \/ Event.tag # ptree[plast].tag)) =>
          /\ pstack' = pstack
          /\ plast' = plast
          /\ ptree' = ptree
          /\ praised' = None
          /\ ppos' = ppos + 1]_vars

\* An end tag was ignored at the Root and another under an open element.
C22_Witness ==
    /\ \E i \in 1..Len(pwarnings) : pwarnings[i].last = 0
    /\ \E i \in 1..Len(pwarnings) : pwarnings[i].last # 0
    /\ Len(pstack) > 1

\* C23: a start tag appends the new Element as the last child of the
\* current node; an element that is not void becomes the stack top and the
\* current node, a void element leaves both as they were.
C23_StartTagAppends ==
    [][HasEvent("start") =>
          /\ ptree' = Append(ptree, ClassElementNode(Event.tag, Event.cls, plast))
          /\ IF is_void(Event.tag)
             THEN pstack' = pstack /\ plast' = plast
             ELSE pstack' = Append(pstack, Len(ptree')) /\ plast' = Len(ptree')]_vars

\* C26: the stack of a parser is not empty, its bottom entry is the Root,
\* every other entry is an element that is not void and is a child of the
\* entry below it, and the current node is the stack top.
C26_StackShape ==
    /\ pstack # <<>>
    /\ pstack[1] = 0
    /\ \A i \in 2..Len(pstack) :
          /\ pstack[i] \in 1..Len(ptree)
          /\ ptree[pstack[i]].kind = "element"
          /\ ~is_void(ptree[pstack[i]].tag)
          /\ ptree[pstack[i]].parent = pstack[i - 1]
    /\ plast = pstack[Len(pstack)]

\* Two elements are open, after a void element and an ignored end tag.
C26_Witness ==
    /\ Len(pstack) >= 2
    /\ pwarnings # <<>>
    /\ \E i \in 1..Len(ptree) : is_void(ptree[i].tag)

\* The nodes under node p.
Descendants(nodes, p) ==
    {i \in 1..Len(nodes) : i # p /\ p \in Ancestors(nodes, i)}

\* Node i comes before node j in pre-order: i holds j, or the two are in
\* the subtrees of two children of one node of which the first is that of i.
PreOrderBefore(nodes, i, j) ==
    \/ i # j /\ i \in Ancestors(nodes, j)
    \/ \E a \in Ancestors(nodes, i) \ {0}, b \in Ancestors(nodes, j) \ {0} :
          /\ nodes[a].parent = nodes[b].parent
          /\ a < b

\* The descendants of p that match o.
Matches(nodes, p, o) == {i \in Descendants(nodes, p) : Node_match(nodes[i], o)}

\* C24: find(o) yields the descendants that match o, each once, a parent
\* before its children and children in list order, every generator from
\* the first descendant on; find1(o) returns the first of them, or None.
C24_FindPreOrder ==
    /\ fgen.made =>
          LET exp == Matches(ftree, fgen.start, fgen.o)
              out == fgen.out
          IN  /\ Range(out) \subseteq exp
              /\ \A i, j \in 1..Len(out) : i < j => PreOrderBefore(ftree, out[i], out[j])
              /\ \A d \in exp \ Range(out) :
                    \A i \in 1..Len(out) : PreOrderBefore(ftree, out[i], d)
              /\ fgen.exhausted => Range(out) = exp
    /\ fone.done =>
          LET exp == Matches(ftree, fone.start, fone.o)
          IN  IF exp = {} THEN fone.result = 0
              ELSE /\ fone.result \in exp
                   /\ \A d \in exp \ {fone.result} : PreOrderBefore(ftree, fone.result, d)

\* A generator has yielded two nodes of which the first was created after
\* the second, and a find1 has returned a node.
C24_Witness ==
    /\ fgen.exhausted
    /\ Len(fgen.out) = 2
    /\ fgen.out[1] > fgen.out[2]
    /\ fone.done
    /\ fone.result # 0

\* C25: a get_transformers call leaves ext2transformers, the pre and post
\* lists included, as it was before the call, and the same call made again
\* returns the same sequence of transformers.
C25_ChainsUnchanged ==
    gtCall.ext # None =>
        /\ ext2transformers = gtCall.before
        /\ get_transformers(ext2transformers, gtCall.ext, gtCall.extonly).result
              = gtCall.result

\* A lookup that extended the list of an extension with the post chain,
\* no pre chain being there to make a new list first.
C25_Witness ==
    /\ gtCall.ext = ".html" /\ ~gtCall.extonly
    /\ ".html" \in DOMAIN gtCall.before
    /\ ~Truthy(DictGet(gtCall.before, "pre"))
    /\ Truthy(DictGet(gtCall.before, "post"))
    /\ gtCall.result = gtCall.before[".html"] \o gtCall.before["post"]

\* C27: the tree handed to the next transformer of a chain holds a body
\* element, also after html2html has replaced the root with the tree
\* parsed from the content.
C27_BodyAtEveryStep ==
    (hpc = "transform" /\ idx <= Len(chain)) => hwRoot.body

\* The credentials of the header are those of a configured account: a
\* Basic header whose decoded credentials are user:password.
CredentialsMatch(config, header) ==
    /\ header.present
    /\ LowerScheme(header.scheme) = "basic"
    /\ header.decodes
    /\ \E user \in DOMAIN config.accounts :
          /\ config.accounts[user] # None
          /\ header.creds = <<user, config.accounts[user]>>

\* C28: a 200 response is sent only for a docpath that does not start
\* with /.rudi/ and that is_authorized accepted; a request that fails one
\* of the two checks gets a 404 or a 401 without content; is_authorized
\* accepts only when authorization is not required or the Basic
\* credentials are the password of a configured account.
C28_GateBefore200 ==
    /\ \A i \in 1..Len(qsent) :
          qsent[i].status = "200" =>
             /\ ~StartsWithRudi(qin.docpath)
             /\ qauth = "True"
    /\ (StartsWithRudi(qin.docpath) \/ qauth = "False") =>
          \A i \in 1..Len(qsent) :
             qsent[i].status \in {"404", "401"} /\ qsent[i].body = "none"
    /\ qauth = "True" =>
          (qin.config.require = "false" \/ CredentialsMatch(qin.config, qin.authorization))

\* A 200 was sent for credentials that are an account's password, with
\* authorization required.
C28_Witness ==
    /\ qsent # <<>> /\ qsent[1].status = "200"
    /\ qin.config.require # "false"
    /\ qauth = "True"

\* C29: do_ALL sends at most one response for a request, and no response
\* follows a 404, 401 or 301.
C29_OneResponse ==
    /\ Len(qsent) <= 1
    /\ (qsent # <<>> /\ qsent[1].status \in {"404", "401", "301"}) => qpc = "done"

\* The request was answered with 401 and the handler has returned.
C29_Witness ==
    /\ qpc = "done"
    /\ qsent = <<GateResponse("401", "none")>>

\* C30: an asis response to a request with If-Modified-Since is 304 only
\* when the file was not modified after the date of the header; a file
\* modified after it is answered with 200 and its content.
C30_NotModifiedOnlyWhenOlder ==
    (qpc = "done" /\ qin.since.present /\ qin.since.valid) =>
        /\ (qsent # <<>> /\ qsent[1].status = "304") => qin.mtime <= qin.since.date
        /\ (qauth = "True" /\ qin.exists /\ ~(qin.isdir /\ ~EndsWithSlash(qin.docpath))
            /\ (qin.stype = "asis" \/ qin.ext # ".html")
            /\ qin.mtime > qin.since.date)
              => qsent = <<GateResponse("200", "content")>>

====
